---- MODULE Spec2Model ----
(***************************************************************************)
(* One accepted connection of the GoWebServer HTTP/1.x server and the      *)
(* worker goroutine (Server.handleConnection) that owns it.                *)
(*                                                                         *)
(* Byte strings are represented by positions: the bytes the peer has sent  *)
(* since the start of the current ParseRequest call form the "wire"; a     *)
(* slice of it is a pair of offsets.  The wire records how many bytes have *)
(* arrived and at which offsets a CRLF CRLF or an LF LF sequence starts.   *)
(* The text of the header section (request line and header lines) is an    *)
(* input chosen when the parser splits it off.                             *)
(***************************************************************************)
EXTENDS Integers, Sequences, FiniteSets, TLC

VARIABLES
    version,       \* s.config.Version
    pc,            \* position of the worker goroutine in handleConnection
    requestCount,  \* handleConnection: requestCount
    rcvTimeo,      \* SO_RCVTIMEO installed on the descriptor, seconds (0 = none)
    idle,          \* seconds since the worker last took a byte or finished a response
    wire,          \* bytes the peer has sent since the current ParseRequest began
    peer,          \* what the peer has done with its end: open, fin, rst
    allData,       \* ParseRequest: bytes taken from the socket by this call
    request,       \* the *Request under construction / returned by ParseRequest
    eofRead,       \* the last conn.Read of this ParseRequest returned (0, nil)
    exchange,      \* what the step just taken decided and wrote for a request
    responses,     \* responses put on the connection so far
    closeCalls,    \* syscall.Close calls made on the descriptor
    exit,          \* why handleConnection returned
    client,        \* requests the peer may still compose
    call,          \* a function of the handler package applied on its own: its
                   \* arguments and its result
    server         \* Server.Start: the accept loop, the descriptors it was
                   \* given and the workers it spawned

vars == <<version, pc, requestCount, rcvTimeo, idle, wire, peer, allData,
          request, eofRead, exchange, responses, closeCalls, exit, client, call, server>>

\* the variables of a connection and its worker
connVars == <<version, pc, requestCount, rcvTimeo, idle, wire, peer, allData,
              request, eofRead, exchange, responses, closeCalls, exit, client>>

(***************************************************************************)
(* Program constants                                                       *)
(***************************************************************************)
MaxRequestSize == 1048576
MaxHeaderSize == 16384
ReadBufSize == 4096
maxRequests == 100
ReadDeadlineSeconds == 30

HTTP10 == "HTTP/1.0"
HTTP11 == "HTTP/1.1"
HTTP2 == "HTTP/2.0"
HTTPVersion == {HTTP10, HTTP11, HTTP2}

(***************************************************************************)
(* Bounds of the environment                                               *)
(***************************************************************************)
MaxSteadyRequests == 102   \* requests a steady peer composes on one connection
MaxVariedRequests == 2     \* requests a varied peer composes on one connection
PipelineWindow == 9        \* unread bytes up to which the peer composes another request
TrickleBytes == 6          \* size of the pieces in which a short tail may arrive
TrickleLimit == 20         \* in-flight bytes up to which the peer trickles
TickSeconds == 15          \* granularity at which waiting time is observed
MaxWait == 45              \* seconds a read is observed waiting

Min(a, b) == IF a < b THEN a ELSE b
SetMin(S) == CHOOSE x \in S : \A y \in S : x <= y

(***************************************************************************)
(* Text: a string the code inspects character by character is a sequence   *)
(* of one-character strings.                                               *)
(***************************************************************************)
Upper == <<"A","B","C","D","E","F","G","H","I","J","K","L","M",
           "N","O","P","Q","R","S","T","U","V","W","X","Y","Z">>
Lower == <<"a","b","c","d","e","f","g","h","i","j","k","l","m",
           "n","o","p","q","r","s","t","u","v","w","x","y","z">>
Digits == <<"0","1","2","3","4","5","6","7","8","9">>

ToLowerChar(c) ==
    IF \E i \in 1..26 : Upper[i] = c
    THEN Lower[CHOOSE i \in 1..26 : Upper[i] = c]
    ELSE c

\* strings.ToLower
ToLower(s) == [i \in 1..Len(s) |-> ToLowerChar(s[i])]

IsDigit(c) == \E i \in 1..10 : Digits[i] = c
DigitVal(c) == (CHOOSE i \in 1..10 : Digits[i] = c) - 1

RECURSIVE ScanDigits(_, _, _)
\* value of the longest run of digits of s starting at index i, given the value so far
ScanDigits(s, i, acc) ==
    IF i <= Len(s) /\ IsDigit(s[i])
    THEN ScanDigits(s, i + 1, acc * 10 + DigitVal(s[i]))
    ELSE acc

\* fmt.Sscanf(s, "%d", &v) with v initially 0: an optional sign and the digits
\* that follow; v stays 0 when no digit is found
Sscanf(s) ==
    LET signed == Len(s) >= 1 /\ s[1] \in {"-", "+"}
        first  == IF signed THEN 2 ELSE 1
    IN  IF first <= Len(s) /\ IsDigit(s[first])
        THEN (IF signed /\ s[1] = "-" THEN -1 ELSE 1) * ScanDigits(s, first, 0)
        ELSE 0

\* strings.HasPrefix
HasPrefix(s, p) == Len(s) >= Len(p) /\ SubSeq(s, 1, Len(p)) = p

\* strings.TrimPrefix
TrimPrefix(s, p) == IF HasPrefix(s, p) THEN SubSeq(s, Len(p) + 1, Len(s)) ELSE s

\* strings.Contains
ContainsStr(s, p) ==
    \E i \in 1..(Len(s) - Len(p) + 1) : SubSeq(s, i, i + Len(p) - 1) = p

RECURSIVE SplitFrom(_, _, _, _)
\* the pieces of s from index i on, cur being the piece under construction
SplitFrom(s, sep, i, cur) ==
    IF i > Len(s) THEN <<cur>>
    ELSE IF s[i] = sep THEN <<cur>> \o SplitFrom(s, sep, i + 1, <<>>)
    ELSE SplitFrom(s, sep, i + 1, Append(cur, s[i]))

\* strings.Split(s, sep) for a one-character separator
Split(s, sep) == SplitFrom(s, sep, 1, <<>>)

IsSpace(c) == c \in {" ", "\t", "\r", "\n"}

RECURSIVE TrimLeft(_)
TrimLeft(s) == IF Len(s) > 0 /\ IsSpace(s[1]) THEN TrimLeft(Tail(s)) ELSE s

RECURSIVE TrimRight(_)
TrimRight(s) ==
    IF Len(s) > 0 /\ IsSpace(s[Len(s)]) THEN TrimRight(SubSeq(s, 1, Len(s) - 1)) ELSE s

\* strings.TrimSpace
TrimSpace(s) == TrimRight(TrimLeft(s))

\* strconv.ParseInt(s, 10, 64): an optional sign, then one or more digits and
\* nothing else; err otherwise (the values used stay far inside 64 bits)
ParseInt(s) ==
    LET signed == Len(s) >= 1 /\ s[1] \in {"-", "+"}
        digits == IF signed THEN Tail(s) ELSE s
    IN  IF Len(digits) = 0 \/ \E i \in 1..Len(digits) : ~IsDigit(digits[i])
        THEN [err |-> TRUE, v |-> 0]
        ELSE [err |-> FALSE,
              v |-> (IF signed /\ s[1] = "-" THEN -1 ELSE 1) * ScanDigits(digits, 1, 0)]

RECURSIVE DigitsOf(_)
DigitsOf(n) ==
    IF n < 10 THEN <<Digits[n + 1]>> ELSE Append(DigitsOf(n \div 10), Digits[(n % 10) + 1])

\* fmt.Sprintf("%d", n)
Itoa(n) == IF n < 0 THEN <<"-">> \o DigitsOf(-n) ELSE DigitsOf(n)

\* fmt.Sprintf("%02d", n) for 0 <= n < 100
Itoa2(n) == <<Digits[(n \div 10) + 1], Digits[(n % 10) + 1]>>

close == <<"c","l","o","s","e">>
\* the header names the code looks up, spelled as the code spells them
Connection == <<"C","o","n","n","e","c","t","i","o","n">>
ContentLength == <<"C","o","n","t","e","n","t","-","L","e","n","g","t","h">>
IfModifiedSince == <<"I","f","-","M","o","d","i","f","i","e","d","-","S","i","n","c","e">>
Range == <<"R","a","n","g","e">>
AcceptEncoding == <<"A","c","c","e","p","t","-","E","n","c","o","d","i","n","g">>

(***************************************************************************)
(* The wire.  Offsets count from the first byte the current ParseRequest   *)
(* call can read.  sent: bytes the peer has composed; arrived: those that  *)
(* reached the socket's receive buffer; crlf, lflf: the offsets at which a *)
(* CRLF CRLF (4 bytes) resp. an LF LF (2 bytes) starts.  All other bytes   *)
(* are neither CR nor LF.                                                  *)
(***************************************************************************)
CRLFCRLF == 4
LFLF == 2

EmptyWire == [sent |-> 0, arrived |-> 0, crlf |-> {}, lflf |-> {}]

\* bytes.Contains(data[:n], terminator) for the terminator starting at the offsets marks
Contains(marks, termLen, n) == \E q \in marks : q + termLen <= n

\* bytes.Index(data[:n], terminator), -1 when absent
Index(marks, termLen, n) ==
    IF Contains(marks, termLen, n)
    THEN SetMin({q \in marks : q + termLen <= n})
    ELSE -1

\* a variant that hands the bytes after the first terminator to the next call
RebaseToTerminator(w, k) ==
    LET ends == {q + CRLFCRLF : q \in {x \in w.crlf : x + CRLFCRLF <= k}}
                \cup {q + LFLF : q \in {x \in w.lflf : x + LFLF <= k}}
        e    == IF ends = {} THEN k ELSE SetMin(ends)
    IN  [sent    |-> w.sent - e,
         arrived |-> w.arrived - e,
         crlf    |-> {q - e : q \in {x \in w.crlf : x >= e}},
         lflf    |-> {q - e : q \in {x \in w.lflf : x >= e}}]

\* the wire as the next ParseRequest call sees it, k bytes having been consumed
Rebase(w, k) ==
    [sent    |-> w.sent - k,
     arrived |-> w.arrived - k,
     crlf    |-> {q - k : q \in {x \in w.crlf : x >= k}},
     lflf    |-> {q - k : q \in {x \in w.lflf : x >= k}}]

(***************************************************************************)
(* The text of a header section, as ParseRequest takes it apart: the       *)
(* number of whitespace-separated fields of the first line with the first  *)
(* three of them, and the lines after it.  A line is its name and value    *)
(* around the first colon, or has no colon.                                *)
(***************************************************************************)
PathHello == <<"hello">>
PathStatic == <<"static", "f">>
PathMissing == <<"nope">>

PathEcho == <<"echo">>

RequestLines ==
    {[fields |-> 3, Method |-> "GET", Path |-> PathHello, Version |-> HTTP11],
     [fields |-> 3, Method |-> "GET", Path |-> PathStatic, Version |-> HTTP11],
     [fields |-> 3, Method |-> "GET", Path |-> PathMissing, Version |-> HTTP11],
     [fields |-> 2, Method |-> "GET", Path |-> PathHello, Version |-> ""]}
PostLine == [fields |-> 3, Method |-> "POST", Path |-> PathEcho, Version |-> HTTP11]

HeaderLine(n, v) == [colon |-> TRUE, name |-> n, value |-> v]

ConnectionLines ==
    {<<>>,
     <<HeaderLine(Connection, close)>>,
     <<HeaderLine(Connection, <<"C","l","o","s","e">>)>>,
     <<HeaderLine(Connection, <<"k","e","e","p","-","a","l","i","v","e">>)>>,
     <<HeaderLine(ToLower(Connection), close)>>}

ContentLengthLines ==
    {<<HeaderLine(ContentLength, <<"0">>)>>,
     <<HeaderLine(ContentLength, <<"5">>)>>,
     <<HeaderLine(ContentLength, <<"1","0","4","8","5","7","7">>)>>,
     <<HeaderLine(ContentLength, <<"2","0","9","7","1","5","2">>)>>}

\* the header sections a peer sends: a GET with any of the Connection lines,
\* or a POST that announces a body, with or without Connection: close
HeaderTexts ==
    {[line |-> rl, headerLines |-> co] : rl \in RequestLines, co \in ConnectionLines}
    \cup {[line |-> PostLine, headerLines |-> cl \o co] :
             cl \in ContentLengthLines,
             co \in {<<>>, <<HeaderLine(Connection, close)>>}}

NoHeaders == [n \in {} |-> <<>>]

RECURSIVE BuildHeaders(_, _, _)
\* request.go: the loop over lines[1:], a later line replacing an earlier one
BuildHeaders(lines, i, m) ==
    IF i > Len(lines) THEN m
    ELSE IF lines[i].colon
         THEN BuildHeaders(lines, i + 1,
                [n \in DOMAIN m \cup {lines[i].name} |->
                    IF n = lines[i].name THEN lines[i].value ELSE m[n]])
         ELSE BuildHeaders(lines, i + 1, m)

NoRequest ==
    [Method |-> "", Path |-> <<>>, Version |-> "", Headers |-> NoHeaders,
     expectedLength |-> 0, bodyFrom |-> 0, Body |-> [from |-> 0, len |-> 0]]

(***************************************************************************)
(* Keep-alive decision (handleConnection)                                  *)
(***************************************************************************)
\* server.go: keepAlive as computed from the configured version and the request
KeepAlive(v, headers) ==
    IF v = HTTP10 THEN FALSE
    ELSE IF Connection \in DOMAIN headers
         THEN ToLower(headers[Connection]) # close
         ELSE TRUE

\* a variant that lets the count reach one more than maxRequests
ShouldKeepAliveOffByOne(keepAlive, count) == keepAlive /\ count <= maxRequests

\* server.go: keepAlive && requestCount < maxRequests
ShouldKeepAlive(keepAlive, count) == keepAlive /\ count < maxRequests

\* server.go: remainingRequests := maxRequests - requestCount
\* a variant that advertises the connection's whole allowance every time
RemainingRequestsOfConnection(count) == maxRequests - 1

RemainingRequests(count) == maxRequests - count

(***************************************************************************)
(* Paths.  A request path is a sequence of tokens: the segments between    *)
(* its slashes, each standing for "/" followed by the segment, and "?"     *)
(* where a query string begins.  A file path is rooted or relative and has *)
(* a sequence of segments.                                                 *)
(***************************************************************************)
\* strings.Split(req.Path, "?")[0]
StripQuery(path) ==
    IF \E i \in 1..Len(path) : path[i] = "?"
    THEN SubSeq(path, 1, SetMin({i \in 1..Len(path) : path[i] = "?"}) - 1)
    ELSE path

RECURSIVE CleanFrom(_, _, _, _)
\* filepath.Clean, segment by segment: empty segments and "." are dropped, ".."
\* removes the segment before it, is dropped at the root of a rooted path and
\* is kept at the head of a relative one
CleanFrom(segs, i, rooted, out) ==
    IF i > Len(segs) THEN out
    ELSE IF segs[i] \in {"", "."} THEN CleanFrom(segs, i + 1, rooted, out)
    ELSE IF segs[i] = ".."
         THEN IF Len(out) > 0 /\ out[Len(out)] # ".."
              THEN CleanFrom(segs, i + 1, rooted, SubSeq(out, 1, Len(out) - 1))
              ELSE IF rooted THEN CleanFrom(segs, i + 1, rooted, out)
              ELSE CleanFrom(segs, i + 1, rooted, Append(out, ".."))
    ELSE CleanFrom(segs, i + 1, rooted, Append(out, segs[i]))

\* filepath.Clean
Clean(rooted, segs) == [rooted |-> rooted, segs |-> CleanFrom(segs, 1, rooted, <<>>)]

\* the segment names that have two dots in a row
DotDotNames == {"..", "...", "a..b"}

\* strings.Contains(cleanPath, ".."): a slash separates the segments, so two
\* dots in a row lie within one segment
ContainsDotDot(p) == \E i \in 1..Len(p.segs) : p.segs[i] \in DotDotNames

\* NewFileServer("./public")
root == [rooted |-> FALSE, segs |-> <<".", "public">>]

\* filepath.Join(a, b): the two joined by a slash, then cleaned
Join(a, b) ==
    Clean(a.rooted, a.segs \o (IF b.rooted THEN <<"">> ELSE <<>>) \o b.segs)

NoPath == [rooted |-> FALSE, segs |-> <<>>]

(***************************************************************************)
(* Responses: header values and bodies.  A body is a piece of content: a   *)
(* text, or len bytes of a file from offset from on; gz is the length its  *)
(* gzip encoding has, gzgz the length of that encoding encoded once more,  *)
(* and enc tells whether the body is the content itself or an encoding.    *)
(***************************************************************************)
Forbidden == <<"F","o","r","b","i","d","d","e","n">>
NotFound == <<"N","o","t"," ","F","o","u","n","d">>
InternalServerError == <<"I","n","t","e","r","n","a","l"," ","S","e","r","v","e","r"," ","E","r","r","o","r">>
DirectoryListingDisabled == <<"D","i","r","e","c","t","o","r","y"," ","l","i","s","t","i","n","g"," ","d","i","s","a","b","l","e","d">>
ErrorReadingFile == <<"E","r","r","o","r"," ","r","e","a","d","i","n","g"," ","f","i","l","e">>
ErrorOpeningFile == <<"E","r","r","o","r"," ","o","p","e","n","i","n","g"," ","f","i","l","e">>
bytes == <<"b","y","t","e","s">>
CacheControlValue == <<"p","u","b","l","i","c",","," ","m","a","x","-","a","g","e","=","3","6","0","0">>
ServerValue == <<"G","o","W","e","b","S","e","r","v","e","r","/","1",".","0">>
gzip == <<"g","z","i","p">>
TextPlain == <<"t","e","x","t","/","p","l","a","i","n">>

\* shouldCompress: compressibleTypes
compressibleTypes ==
    {<<"t","e","x","t","/","h","t","m","l">>,
     <<"t","e","x","t","/","c","s","s">>,
     <<"t","e","x","t","/","j","a","v","a","s","c","r","i","p","t">>,
     <<"t","e","x","t","/","p","l","a","i","n">>,
     <<"t","e","x","t","/","x","m","l">>,
     <<"a","p","p","l","i","c","a","t","i","o","n","/","j","s","o","n">>,
     <<"a","p","p","l","i","c","a","t","i","o","n","/","j","a","v","a","s","c","r","i","p","t">>,
     <<"a","p","p","l","i","c","a","t","i","o","n","/","x","m","l">>,
     <<"a","p","p","l","i","c","a","t","i","o","n","/","x","m","l","+","r","s","s">>,
     <<"a","p","p","l","i","c","a","t","i","o","n","/","x","h","t","m","l","+","x","m","l">>,
     <<"i","m","a","g","e","/","s","v","g","+","x","m","l">>}

\* A body: where its bytes come from (src, text, from), how many they are
\* (len), how many its gzip encoding has (gz), how many the gzip encoding of
\* that has (gzgz), and the encodings applied to it so far (enc)
NoBody ==
    [src |-> "none", text |-> <<>>, from |-> 0, len |-> 0, gz |-> 0, gzgz |-> 0,
     enc |-> "identity"]

\* bytes a gzip stream adds to data it cannot shrink: header, trailer and the
\* frame of one stored block
GzipOverhead == 23

\* a body given as text; the gzip encoding of a short text is longer than the text
TextBody(text) ==
    [src |-> "text", text |-> text, from |-> 0, len |-> Len(text),
     gz |-> Len(text) + GzipOverhead, gzgz |-> Len(text) + 2 * GzipOverhead,
     enc |-> "identity"]

\* len bytes of the file f from offset from on
FileBody(f, from, len) ==
    [src |-> "file", text |-> <<>>, from |-> from, len |-> len,
     gz |-> f.gz, gzgz |-> f.gz + GzipOverhead, enc |-> "identity"]

\* len(resp.Body)
Size(b) ==
    CASE b.enc = "identity"  -> b.len
      [] b.enc = "gzip"      -> b.gz
      [] b.enc = "gzip,gzip" -> b.gzgz

\* gzip.NewReader(body) read to its end: the bytes a gzip stream encodes
Decoded(b) ==
    CASE b.enc = "gzip"      -> [b EXCEPT !.enc = "identity"]
      [] b.enc = "gzip,gzip" -> [b EXCEPT !.enc = "gzip"]

\* a header map: m[k], the empty string when k is absent
Get(m, k) == IF k \in DOMAIN m THEN m[k] ELSE <<>>
\* m[k] = v
Put(m, k, v) == (k :> v) @@ m
NoFields == [k \in {} |-> <<>>]

\* protocol.NewResponse
NewResponse(statusCode, status, body) ==
    [StatusCode |-> statusCode, Status |-> status, Headers |-> NoFields, Body |-> body]

(***************************************************************************)
(* Responses: status, the Connection and Keep-Alive headers, and whether   *)
(* all of its bytes went out.                                              *)
(***************************************************************************)
NoKeepAliveHeader == [timeout |-> 0, max |-> -1]

\* the Connection / Keep-Alive headers every emitter sets from the flag it is given
ConnectionHeaders(keepAlive, remainingRequests) ==
    IF keepAlive
    THEN [Connection |-> "keep-alive",
          KeepAlive  |-> [timeout |-> 30, max |-> remainingRequests]]
    ELSE [Connection |-> "close", KeepAlive |-> NoKeepAliveHeader]

\* conn.Write of a whole buffer: all of it, part of it without an error, or an error
WriteOutcomes == {"full", "short", "error"}
\* io.Copy / io.CopyN of the file onto the connection
CopyOutcomes == {"ok", "error"}
\* a header write and the copy that follows it when the write raised no error
StreamOutcomes ==
    {<<w, c>> \in WriteOutcomes \X CopyOutcomes : w = "error" => c = "ok"}

NoEmission ==
    [wrote |-> FALSE, status |-> 0, headers |-> ConnectionHeaders(FALSE, 0),
     complete |-> FALSE, err |-> FALSE,
     reason |-> <<>>, fields |-> NoFields, body |-> NoBody, file |-> NoPath]

\* a response emitted by one conn.Write whose error is the emitter's result
\* (WriteResponse, serveSmallFile, sendError, sendNotModified): the status
\* line, the Connection headers, the other header fields and the body
WriteWhole(resp, keepAlive, remainingRequests, w) ==
    [wrote    |-> w # "error",
     status   |-> resp.StatusCode,
     headers  |-> ConnectionHeaders(keepAlive, remainingRequests),
     complete |-> w = "full",
     err      |-> w = "error",
     reason   |-> resp.Status,
     fields   |-> resp.Headers,
     body     |-> resp.Body,
     file     |-> NoPath]

\* a header block written by conn.Write, then the file copied by io.Copy / io.CopyN
\* (sendFullFile, sendRangeFile); resp.Body is what the copy is to deliver
WriteThenCopy(resp, keepAlive, remainingRequests, w, c) ==
    IF w = "error"
    THEN [NoEmission EXCEPT !.err = TRUE]
    ELSE [wrote    |-> TRUE,
          status   |-> resp.StatusCode,
          headers  |-> ConnectionHeaders(keepAlive, remainingRequests),
          complete |-> w = "full" /\ c = "ok",
          err      |-> c = "error",
          reason   |-> resp.Status,
          fields   |-> resp.Headers,
          body     |-> resp.Body,
          file     |-> NoPath]

\* what one pass of the loop decided and emitted for request number id:
\* the keep-alive flag it acted on, the If-Modified-Since its request carried,
\* and the emission
NoExchange == [id |-> 0, keepAlive |-> FALSE, since |-> <<>>, emission |-> NoEmission]

(***************************************************************************)
(* Router                                                                  *)
(***************************************************************************)
Routes ==
    {<<"GET", <<"">>>>, <<"GET", <<"hello">>>>, <<"POST", <<"echo">>>>,
     <<"GET", <<"api", "users">>>>, <<"GET", <<"version">>>>,
     <<"GET", <<"favicon.ico">>>>}

\* strings.HasPrefix(req.Path, "/static/")
HasStaticPrefix(path) == Len(path) >= 2 /\ path[1] = "static" /\ path[2] # "?"

\* a variant that streams GET requests only
NeedsStreamingGetOnly(req) == req.Method = "GET" /\ HasStaticPrefix(req.Path)

\* Router.NeedsStreaming
NeedsStreaming(req) == req.Method \in {"GET", "HEAD"} /\ HasStaticPrefix(req.Path)

(***************************************************************************)
(* Compression middleware                                                  *)
(***************************************************************************)
minSizeForCompression == 1024

\* shouldCompress
shouldCompress(contentType) ==
    TrimSpace(ToLower(Split(contentType, ";")[1])) \in compressibleTypes

\* acceptsGzip
acceptsGzip(acceptEncoding) ==
    IF acceptEncoding = <<>> THEN FALSE
    ELSE LET encodings == Split(ToLower(acceptEncoding), ",")
         IN  \E i \in 1..Len(encodings) :
                \/ TrimSpace(encodings[i]) = gzip
                \/ HasPrefix(TrimSpace(encodings[i]), gzip \o <<";">>)

\* compressContent: the gzip encoding of the body (compress/gzip is lossless;
\* writing into a bytes.Buffer raises no error)
compressContent(body) ==
    CASE body.enc = "identity" -> [body EXCEPT !.enc = "gzip"]
      [] body.enc = "gzip"     -> [body EXCEPT !.enc = "gzip,gzip"]

\* a variant that takes the encoding even when it is not smaller
CompressResponseAlways(resp, req) ==
    IF Size(resp.Body) = 0 \/ Get(resp.Headers, "Content-Encoding") # <<>>
    THEN resp
    ELSE [resp EXCEPT
            !.Body = compressContent(resp.Body),
            !.Headers = Put(Put(Put(@, "Content-Encoding", gzip),
                                "Content-Length", Itoa(Size(compressContent(resp.Body)))),
                            "Vary", AcceptEncoding)]

\* a variant that leaves Content-Length as it was computed for the body received
CompressResponseKeepingLength(resp, req) ==
    LET contentType == IF Get(resp.Headers, "Content-Type") = <<>>
                       THEN TextPlain
                       ELSE Get(resp.Headers, "Content-Type")
        shouldGzip == /\ acceptsGzip(Get(req.Headers, AcceptEncoding))
                      /\ shouldCompress(contentType)
                      /\ Size(resp.Body) >= minSizeForCompression
        compressed == compressContent(resp.Body)
    IN  IF Size(resp.Body) = 0 THEN resp
        ELSE IF Get(resp.Headers, "Content-Encoding") # <<>> THEN resp
        ELSE IF ~shouldGzip
        THEN IF shouldCompress(contentType)
             THEN [resp EXCEPT !.Headers = Put(@, "Vary", AcceptEncoding)]
             ELSE resp
        ELSE IF Size(compressed) >= Size(resp.Body)
        THEN [resp EXCEPT !.Headers = Put(@, "Vary", AcceptEncoding)]
        ELSE [resp EXCEPT
                !.Body = compressed,
                !.Headers = Put(Put(Put(@, "Content-Encoding", gzip),
                                    "Content-Length", Itoa(Size(resp.Body))),
                                "Vary", AcceptEncoding)]

\* a variant that does not look for a Content-Encoding already set
CompressResponseRepeating(resp, req) ==
    LET contentType == IF Get(resp.Headers, "Content-Type") = <<>>
                       THEN TextPlain
                       ELSE Get(resp.Headers, "Content-Type")
        shouldGzip == /\ acceptsGzip(Get(req.Headers, AcceptEncoding))
                      /\ shouldCompress(contentType)
                      /\ Size(resp.Body) >= minSizeForCompression
        compressed == compressContent(resp.Body)
    IN  IF Size(resp.Body) = 0 THEN resp
        ELSE IF ~shouldGzip
        THEN IF shouldCompress(contentType)
             THEN [resp EXCEPT !.Headers = Put(@, "Vary", AcceptEncoding)]
             ELSE resp
        ELSE IF Size(compressed) >= Size(resp.Body)
        THEN [resp EXCEPT !.Headers = Put(@, "Vary", AcceptEncoding)]
        ELSE [resp EXCEPT
                !.Body = compressed,
                !.Headers = Put(Put(Put(@, "Content-Encoding", gzip),
                                    "Content-Length", Itoa(Size(compressed))),
                                "Vary", AcceptEncoding)]

\* a variant that sets Vary whatever the content type
CompressResponseVaryingAll(resp, req) ==
    LET contentType == IF Get(resp.Headers, "Content-Type") = <<>>
                       THEN TextPlain
                       ELSE Get(resp.Headers, "Content-Type")
        shouldGzip == /\ acceptsGzip(Get(req.Headers, AcceptEncoding))
                      /\ shouldCompress(contentType)
                      /\ Size(resp.Body) >= minSizeForCompression
        compressed == compressContent(resp.Body)
    IN  IF Size(resp.Body) = 0 THEN resp
        ELSE IF Get(resp.Headers, "Content-Encoding") # <<>> THEN resp
        ELSE IF ~shouldGzip
        THEN [resp EXCEPT !.Headers = Put(@, "Vary", AcceptEncoding)]
        ELSE IF Size(compressed) >= Size(resp.Body)
        THEN [resp EXCEPT !.Headers = Put(@, "Vary", AcceptEncoding)]
        ELSE [resp EXCEPT
                !.Body = compressed,
                !.Headers = Put(Put(Put(@, "Content-Encoding", gzip),
                                    "Content-Length", Itoa(Size(compressed))),
                                "Vary", AcceptEncoding)]

\* CompressResponse
CompressResponse(resp, req) ==
    LET contentType == IF Get(resp.Headers, "Content-Type") = <<>>
                       THEN TextPlain
                       ELSE Get(resp.Headers, "Content-Type")
        shouldGzip == /\ acceptsGzip(Get(req.Headers, AcceptEncoding))
                      /\ shouldCompress(contentType)
                      /\ Size(resp.Body) >= minSizeForCompression
        compressed == compressContent(resp.Body)
    IN  IF Size(resp.Body) = 0 THEN resp
        ELSE IF Get(resp.Headers, "Content-Encoding") # <<>> THEN resp
        ELSE IF ~shouldGzip
        THEN IF shouldCompress(contentType)
             THEN [resp EXCEPT !.Headers = Put(@, "Vary", AcceptEncoding)]
             ELSE resp
        ELSE IF Size(compressed) >= Size(resp.Body)
        THEN [resp EXCEPT !.Headers = Put(@, "Vary", AcceptEncoding)]
        ELSE [resp EXCEPT
                !.Body = compressed,
                !.Headers = Put(Put(Put(@, "Content-Encoding", gzip),
                                    "Content-Length", Itoa(Size(compressed))),
                                "Vary", AcceptEncoding)]

(***************************************************************************)
(* Handlers of the buffered branch.  What a handler reads from disk or     *)
(* builds from request data is an input a: a.readOK (os.ReadFile           *)
(* succeeded), a.size (bytes read), a.gz (length of the gzip encoding of   *)
(* the body built).                                                        *)
(***************************************************************************)
OK == <<"O","K">>
ApplicationJSON == <<"a","p","p","l","i","c","a","t","i","o","n","/","j","s","o","n">>
TextHTML == <<"t","e","x","t","/","h","t","m","l",";"," ","c","h","a","r","s","e","t","=","u","t","f","-","8">>
ImageIcon == <<"i","m","a","g","e","/","x","-","i","c","o","n">>
FaviconCacheControl == <<"p","u","b","l","i","c",","," ","m","a","x","-","a","g","e","=","8","6","4","0","0">>
HelloText == <<"H","e","l","l","o"," ","f","r","o","m"," ","G","o"," ","W","e","b"," ","S","e","r","v","e","r","!">>
UsersText ==
    <<"[","{","\"","i","d","\"",":","1",",","\"","n","a","m","e","\"",":","\"","F","a","i","z","a","n","\"","}",",","{","\"","i","d","\"",":","2",",","\"","n","a","m","e","\"",":","\"","H","u","s","s","a","i","n","\"","}","]">>
PageNotFoundText == <<"4","0","4"," ","-"," ","P","a","g","e"," ","N","o","t"," ","F","o","u","n","d">>
TemplateErrorText == <<"E","r","r","o","r"," ","l","o","a","d","i","n","g"," ","h","o","m","e","p","a","g","e"," ","t","e","m","p","l","a","t","e">>
FaviconNotFoundText == <<"F","a","v","i","c","o","n"," ","n","o","t"," ","f","o","u","n","d">>

\* a body of len bytes built from data, whose gzip encoding has a.gz bytes
BuiltBody(src, len, a) ==
    [src |-> src, text |-> <<>>, from |-> 0, len |-> len, gz |-> a.gz,
     gzgz |-> a.gz + GzipOverhead, enc |-> "identity"]

\* len(string(req.Version)) for the versions a request line carries
VersionLen(v) == IF v = "" THEN 0 ELSE 8

WithType(resp, contentType) == [resp EXCEPT !.Headers = Put(@, "Content-Type", contentType)]

\* handleHome
handleHome(req, a) ==
    IF ~a.readOK
    THEN WithType(NewResponse(500, InternalServerError, TextBody(TemplateErrorText)), TextPlain)
    ELSE CompressResponse(
            WithType(NewResponse(200, OK, BuiltBody("template", a.size, a)), TextHTML), req)

\* handleHello
handleHello(req) ==
    CompressResponse(WithType(NewResponse(200, OK, TextBody(HelloText)), TextPlain), req)

\* handleEcho: {"message":"<body>"}
handleEcho(req, a) ==
    CompressResponse(
        WithType(NewResponse(200, OK, BuiltBody("echo", 12 + req.Body.len + 2, a)),
                 ApplicationJSON), req)

\* handleGetUsers
handleGetUsers(req) ==
    CompressResponse(WithType(NewResponse(200, OK, TextBody(UsersText)), ApplicationJSON), req)

\* handleVersion: {"protocol":"<version>","server":"GoWebServer/1.0"}
handleVersion(req, a) ==
    CompressResponse(
        WithType(NewResponse(200, OK, BuiltBody("version", 13 + VersionLen(req.Version) + 29, a)),
                 ApplicationJSON), req)

\* handleFavicon
handleFavicon(req, a) ==
    IF ~a.readOK
    THEN NewResponse(404, NotFound, TextBody(FaviconNotFoundText))
    ELSE [NewResponse(200, OK, BuiltBody("favicon", a.size, a)) EXCEPT
            !.Headers = Put(Put(@, "Content-Type", ImageIcon),
                            "Cache-Control", FaviconCacheControl)]

\* Router.Route with the handlers registered in NewHTTPHandler
Route(req, a) ==
    IF <<req.Method, req.Path>> \notin Routes
    THEN WithType(NewResponse(404, NotFound, TextBody(PageNotFoundText)), TextPlain)
    ELSE IF req.Path = <<"">> THEN handleHome(req, a)
    ELSE IF req.Path = <<"hello">> THEN handleHello(req)
    ELSE IF req.Path = <<"echo">> THEN handleEcho(req, a)
    ELSE IF req.Path = <<"api", "users">> THEN handleGetUsers(req)
    ELSE IF req.Path = <<"version">> THEN handleVersion(req, a)
    ELSE handleFavicon(req, a)

\* protocol.WriteResponse: Content-Length, Date and Server are stamped, then
\* everything goes out in one conn.Write (the value of Date, the current time,
\* is left out)
WriteResponse(resp, keepAlive, remainingRequests, w) ==
    WriteWhole([resp EXCEPT !.Headers =
                   Put(Put(Put(@, "Content-Length", Itoa(Size(resp.Body))),
                           "Date", <<>>),
                       "Server", ServerValue)],
               keepAlive, remainingRequests, w)

(***************************************************************************)
(* Time.  An instant is sec seconds since 1970-01-01 00:00:00 UTC and nsec *)
(* nanoseconds within the second.  A date is text, character by character. *)
(***************************************************************************)
Instant(s, ns) == [sec |-> s, nsec |-> ns]

\* a variant that keeps the part below the second
TruncateNothing(t) == t

\* Time.Truncate(time.Second)
Truncate(t) == [t EXCEPT !.nsec = 0]

\* a variant that also holds of the same instant
AfterOrSame(a, b) == a.sec > b.sec \/ (a.sec = b.sec /\ a.nsec >= b.nsec)

\* Time.After
After(a, b) == a.sec > b.sec \/ (a.sec = b.sec /\ a.nsec > b.nsec)

\* days since 1970-01-01 of the civil date y-m-d (proleptic Gregorian)
DaysFromCivil(y, m, d) ==
    LET yy  == IF m <= 2 THEN y - 1 ELSE y
        era == yy \div 400
        yoe == yy - era * 400
        doy == (153 * (IF m > 2 THEN m - 3 ELSE m + 9) + 2) \div 5 + d - 1
        doe == yoe * 365 + yoe \div 4 - yoe \div 100 + doy
    IN  era * 146097 + doe - 719468

\* the civil date of the day z days after 1970-01-01
CivilFromDays(z) ==
    LET zz  == z + 719468
        era == zz \div 146097
        doe == zz - era * 146097
        yoe == (doe - doe \div 1460 + doe \div 36524 - doe \div 146096) \div 365
        doy == doe - (365 * yoe + yoe \div 4 - yoe \div 100)
        mp  == (5 * doy + 2) \div 153
        d   == doy - (153 * mp + 2) \div 5 + 1
        m   == IF mp < 10 THEN mp + 3 ELSE mp - 9
    IN  [year |-> yoe + era * 400 + (IF m <= 2 THEN 1 ELSE 0), month |-> m, day |-> d]

\* 0 = Sunday
Weekday(z) == (z + 4) % 7

DaysIn(m, y) ==
    IF m = 2
    THEN (IF y % 4 = 0 /\ (y % 100 # 0 \/ y % 400 = 0) THEN 29 ELSE 28)
    ELSE IF m \in {4, 6, 9, 11} THEN 30 ELSE 31

LongDayNames ==
    <<<<"S","u","n","d","a","y">>,
      <<"M","o","n","d","a","y">>,
      <<"T","u","e","s","d","a","y">>,
      <<"W","e","d","n","e","s","d","a","y">>,
      <<"T","h","u","r","s","d","a","y">>,
      <<"F","r","i","d","a","y">>,
      <<"S","a","t","u","r","d","a","y">>>>
ShortDayNames == [i \in 1..7 |-> SubSeq(LongDayNames[i], 1, 3)]
ShortMonthNames ==
    <<<<"J","a","n">>,
      <<"F","e","b">>,
      <<"M","a","r">>,
      <<"A","p","r">>,
      <<"M","a","y">>,
      <<"J","u","n">>,
      <<"J","u","l">>,
      <<"A","u","g">>,
      <<"S","e","p">>,
      <<"O","c","t">>,
      <<"N","o","v">>,
      <<"D","e","c">>>>

\* the calendar fields of an instant, in UTC
Fields(t) ==
    LET z == t.sec \div 86400
        r == t.sec % 86400
        c == CivilFromDays(z)
    IN  [year |-> c.year, month |-> c.month, day |-> c.day, weekday |-> Weekday(z),
         hour |-> r \div 3600, minute |-> (r % 3600) \div 60, second |-> r % 60]

Clock(f) == Itoa2(f.hour) \o <<":">> \o Itoa2(f.minute) \o <<":">> \o Itoa2(f.second)
Itoa4(n) == Itoa2(n \div 100) \o Itoa2(n % 100)
UTC == <<"U","T","C">>
GMT == <<"G","M","T">>

\* Time.UTC().Format(time.RFC1123): "Mon, 02 Jan 2006 15:04:05 MST"
FormatRFC1123(t, zone) ==
    LET f == Fields(t)
    IN  ShortDayNames[f.weekday + 1] \o <<",", " ">> \o Itoa2(f.day) \o <<" ">>
        \o ShortMonthNames[f.month] \o <<" ">> \o Itoa4(f.year) \o <<" ">>
        \o Clock(f) \o <<" ">> \o zone

\* the same instant as a client writes it in the layout time.RFC850:
\* "Monday, 02-Jan-06 15:04:05 MST"
FormatRFC850(t, zone) ==
    LET f == Fields(t)
    IN  LongDayNames[f.weekday + 1] \o <<",", " ">> \o Itoa2(f.day) \o <<"-">>
        \o ShortMonthNames[f.month] \o <<"-">> \o Itoa2(f.year % 100) \o <<" ">>
        \o Clock(f) \o <<" ">> \o zone

\* the same instant as a client writes it in the layout time.ANSIC:
\* "Mon Jan _2 15:04:05 2006"
FormatANSIC(t) ==
    LET f == Fields(t)
    IN  ShortDayNames[f.weekday + 1] \o <<" ">> \o ShortMonthNames[f.month] \o <<" ">>
        \o (IF f.day < 10 THEN <<" ", Digits[f.day + 1]>> ELSE Itoa2(f.day)) \o <<" ">>
        \o Clock(f) \o <<" ">> \o Itoa4(f.year)

\* the number written in the n characters of s from index i on, -1 if they are
\* not all digits
Num(s, i, n) ==
    IF i + n - 1 <= Len(s) /\ \A k \in i..(i + n - 1) : IsDigit(s[k])
    THEN ScanDigits(SubSeq(s, i, i + n - 1), 1, 0)
    ELSE -1

\* the index of the name that s carries at index i, 0 if none (names are
\* matched without regard to case)
NameAt(names, s, i) ==
    LET hits == {k \in 1..Len(names) :
                    /\ i + Len(names[k]) - 1 <= Len(s)
                    /\ ToLower(SubSeq(s, i, i + Len(names[k]) - 1)) = ToLower(names[k])}
    IN  IF hits = {} THEN 0 ELSE SetMin(hits)

\* s carries the characters lit at index i
LitAt(s, i, lit) == i + Len(lit) - 1 <= Len(s) /\ SubSeq(s, i, i + Len(lit) - 1) = lit

\* a zone abbreviation: three upper-case letters, read with offset zero
ZoneAt(s, i) ==
    /\ Len(s) = i + 2
    /\ \A k \in i..(i + 2) : \E j \in 1..26 : Upper[j] = s[k]

NoTime == [err |-> TRUE, t |-> Instant(0, 0)]

\* the instant of the parsed fields, or the error time.Parse gives for a field
\* out of range
FromFields(y, m, d, hh, mm, ss) ==
    IF \/ y < 0 \/ m < 1 \/ d < 1 \/ hh < 0 \/ mm < 0 \/ ss < 0
       \/ hh > 23 \/ mm > 59 \/ ss > 59 \/ d > DaysIn(m, y)
    THEN NoTime
    ELSE [err |-> FALSE,
          t |-> Instant(DaysFromCivil(y, m, d) * 86400 + hh * 3600 + mm * 60 + ss, 0)]

\* hh:mm:ss at index i
ClockAt(s, i) ==
    IF LitAt(s, i + 2, <<":">>) /\ LitAt(s, i + 5, <<":">>)
    THEN [hh |-> Num(s, i, 2), mm |-> Num(s, i + 3, 2), ss |-> Num(s, i + 6, 2)]
    ELSE [hh |-> -1, mm |-> -1, ss |-> -1]

\* time.Parse(time.RFC1123, s)
ParseRFC1123(s) ==
    IF /\ NameAt(ShortDayNames, s, 1) # 0
       /\ LitAt(s, 4, <<",", " ">>) /\ LitAt(s, 8, <<" ">>)
       /\ NameAt(ShortMonthNames, s, 9) # 0
       /\ LitAt(s, 12, <<" ">>) /\ LitAt(s, 17, <<" ">>) /\ LitAt(s, 26, <<" ">>)
       /\ ZoneAt(s, 27)
    THEN LET c == ClockAt(s, 18)
         IN  FromFields(Num(s, 13, 4), NameAt(ShortMonthNames, s, 9), Num(s, 6, 2),
                        c.hh, c.mm, c.ss)
    ELSE NoTime

\* time.Parse(time.RFC850, s); a two-digit year yy is 19yy from 69 on, else 20yy
ParseRFC850(s) ==
    LET w == NameAt(LongDayNames, s, 1)
        p == IF w = 0 THEN 0 ELSE Len(LongDayNames[w])
        yy == Num(s, p + 10, 2)
    IN  IF /\ w # 0
           /\ LitAt(s, p + 1, <<",", " ">>) /\ LitAt(s, p + 5, <<"-">>)
           /\ NameAt(ShortMonthNames, s, p + 6) # 0
           /\ LitAt(s, p + 9, <<"-">>) /\ LitAt(s, p + 12, <<" ">>)
           /\ LitAt(s, p + 21, <<" ">>)
           /\ ZoneAt(s, p + 22)
        THEN LET c == ClockAt(s, p + 13)
             IN  FromFields(IF yy < 0 THEN -1 ELSE IF yy >= 69 THEN 1900 + yy ELSE 2000 + yy,
                            NameAt(ShortMonthNames, s, p + 6), Num(s, p + 3, 2),
                            c.hh, c.mm, c.ss)
        ELSE NoTime

\* time.Parse(time.ANSIC, s); the day is padded with a space
ParseANSIC(s) ==
    IF /\ Len(s) = 24
       /\ NameAt(ShortDayNames, s, 1) # 0
       /\ LitAt(s, 4, <<" ">>)
       /\ NameAt(ShortMonthNames, s, 5) # 0
       /\ LitAt(s, 8, <<" ">>) /\ LitAt(s, 11, <<" ">>) /\ LitAt(s, 20, <<" ">>)
    THEN LET c == ClockAt(s, 12)
             d == IF s[9] = " " THEN Num(s, 10, 1) ELSE Num(s, 9, 2)
         IN  FromFields(Num(s, 21, 4), NameAt(ShortMonthNames, s, 5), d, c.hh, c.mm, c.ss)
    ELSE NoTime

\* parseHTTPTime
parseHTTPTime(timeStr) ==
    IF ~ParseRFC1123(timeStr).err THEN ParseRFC1123(timeStr)
    ELSE IF ~ParseRFC850(timeStr).err THEN ParseRFC850(timeStr)
    ELSE IF ~ParseANSIC(timeStr).err THEN ParseANSIC(timeStr)
    ELSE NoTime

(***************************************************************************)
(* File server, streaming branch.  What the file system answers for the    *)
(* resolved path is an input f: f.stat (os.Stat: ok, notexist, error),     *)
(* f.isDir, f.index (index.html exists in the directory), and, of the file *)
(* finally served, f.modTime, f.size, f.gz (length of the gzip encoding of *)
(* its content), f.contentType (getContentType of its name), f.readOK      *)
(* (os.ReadFile), f.openOK (os.Open), f.seekOK (File.Seek).  A file on     *)
(* disk never has the zero time (year 1) as its modification time.         *)
(***************************************************************************)
MaxInMemorySize == 1048576

RangeError == [err |-> TRUE, start |-> 0, end |-> 0]

\* a variant that does not compare the offsets with the file size or with
\* each other
parseRangeHeaderUnchecked(rangeHeader, fileSize) ==
    LET prefix    == bytes \o <<"=">>
        rangeSpec == TrimPrefix(rangeHeader, prefix)
        parts     == Split(rangeSpec, "-")
        start     == ParseInt(parts[1])
        end       == IF parts[2] = <<>>
                     THEN [err |-> FALSE, v |-> fileSize - 1]
                     ELSE ParseInt(parts[2])
    IN  IF ~HasPrefix(rangeHeader, prefix) THEN RangeError
        ELSE IF Len(parts) # 2 THEN RangeError
        ELSE IF start.err THEN RangeError
        ELSE IF end.err THEN RangeError
        ELSE [err |-> FALSE, start |-> start.v, end |-> end.v]

\* parseRangeHeader
parseRangeHeader(rangeHeader, fileSize) ==
    LET prefix    == bytes \o <<"=">>
        rangeSpec == TrimPrefix(rangeHeader, prefix)
        parts     == Split(rangeSpec, "-")
        start     == ParseInt(parts[1])
        end       == IF parts[2] = <<>>
                     THEN [err |-> FALSE, v |-> fileSize - 1]
                     ELSE ParseInt(parts[2])
    IN  IF ~HasPrefix(rangeHeader, prefix) THEN RangeError
        ELSE IF Len(parts) # 2 THEN RangeError
        ELSE IF start.err THEN RangeError
        ELSE IF end.err THEN RangeError
        ELSE IF start.v < 0 \/ end.v >= fileSize \/ start.v > end.v THEN RangeError
        ELSE [err |-> FALSE, start |-> start.v, end |-> end.v]

\* the header fields every emitter of the file server stamps (the value of
\* Date, the current time, is left out)
Stamped(resp) == [resp EXCEPT !.Headers = Put(Put(@, "Date", <<>>), "Server", ServerValue)]

\* the header fields of a delivered file
FileFields(resp, f, modTime) ==
    [resp EXCEPT !.Headers =
        Put(Put(Put(Put(@, "Content-Type", f.contentType),
                    "Accept-Ranges", bytes),
                "Last-Modified", FormatRFC1123(modTime, UTC)),
            "Cache-Control", CacheControlValue)]

\* a variant that announces the length of the message alone
sendErrorMessageLength(code, status, keepAlive, remainingRequests, w) ==
    LET body == Itoa(code) \o <<" ", "-", " ">> \o status
        resp == [NewResponse(code, status, TextBody(body)) EXCEPT
                    !.Headers = Put(Put(@, "Content-Type", TextPlain),
                                    "Content-Length", Itoa(Len(status)))]
    IN  WriteWhole(Stamped(resp), keepAlive, remainingRequests, w)

\* FileServer.sendError
sendError(code, status, keepAlive, remainingRequests, w) ==
    LET body == Itoa(code) \o <<" ", "-", " ">> \o status
        resp == [NewResponse(code, status, TextBody(body)) EXCEPT
                    !.Headers = Put(Put(@, "Content-Type", TextPlain),
                                    "Content-Length", Itoa(Len(body)))]
    IN  WriteWhole(Stamped(resp), keepAlive, remainingRequests, w)

\* FileServer.sendNotModified
sendNotModified(modTime, keepAlive, remainingRequests, w) ==
    LET resp == [NewResponse(304, <<"N","o","t"," ","M","o","d","i","f","i","e","d">>, NoBody) EXCEPT
                    !.Headers = Put(Put(@, "Last-Modified", FormatRFC1123(modTime, UTC)),
                                    "Cache-Control", CacheControlValue)]
    IN  WriteWhole(Stamped(resp), keepAlive, remainingRequests, w)

\* a variant that writes the file as it was read, the middleware left out
serveSmallFileUncompressed(req, f, modTime, keepAlive, remainingRequests, w) ==
    IF ~f.readOK THEN sendError(500, ErrorReadingFile, keepAlive, remainingRequests, w)
    ELSE LET resp == Stamped(FileFields(NewResponse(200, OK, FileBody(f, 0, f.size)),
                                        f, modTime))
         IN  WriteWhole(resp, keepAlive, remainingRequests, w)

\* FileServer.serveSmallFile
serveSmallFile(req, f, modTime, keepAlive, remainingRequests, w) ==
    IF ~f.readOK THEN sendError(500, ErrorReadingFile, keepAlive, remainingRequests, w)
    ELSE LET resp == Stamped(FileFields(NewResponse(200, OK, FileBody(f, 0, f.size)),
                                        f, modTime))
         IN  WriteWhole(CompressResponse(resp, req), keepAlive, remainingRequests, w)

\* FileServer.sendFullFile
sendFullFile(f, modTime, keepAlive, remainingRequests, w, c) ==
    LET resp == [FileFields(NewResponse(200, OK, FileBody(f, 0, f.size)), f, modTime)
                    EXCEPT !.Headers = Put(@, "Content-Length", Itoa(f.size))]
    IN  WriteThenCopy(Stamped(resp), keepAlive, remainingRequests, w, c)

\* a variant that counts the bytes from start up to end, end left out
sendRangeFileExclusive(f, start, end, modTime, keepAlive, remainingRequests, w, c) ==
    LET contentLength == end - start
        resp == [FileFields(NewResponse(206, <<"P","a","r","t","i","a","l"," ","C","o","n","t","e","n","t">>,
                                        FileBody(f, start, contentLength)), f, modTime)
                    EXCEPT !.Headers =
                        Put(Put(@, "Content-Length", Itoa(contentLength)),
                            "Content-Range",
                            bytes \o <<" ">> \o Itoa(start) \o <<"-">> \o Itoa(end)
                                  \o <<"/">> \o Itoa(f.size))]
    IN  IF ~f.seekOK THEN [NoEmission EXCEPT !.err = TRUE]
        ELSE WriteThenCopy(Stamped(resp), keepAlive, remainingRequests, w, c)

\* FileServer.sendRangeFile
sendRangeFile(f, start, end, modTime, keepAlive, remainingRequests, w, c) ==
    LET contentLength == end - start + 1
        resp == [FileFields(NewResponse(206, <<"P","a","r","t","i","a","l"," ","C","o","n","t","e","n","t">>,
                                        FileBody(f, start, contentLength)), f, modTime)
                    EXCEPT !.Headers =
                        Put(Put(@, "Content-Length", Itoa(contentLength)),
                            "Content-Range",
                            bytes \o <<" ">> \o Itoa(start) \o <<"-">> \o Itoa(end)
                                  \o <<"/">> \o Itoa(f.size))]
    IN  IF ~f.seekOK THEN [NoEmission EXCEPT !.err = TRUE]
        ELSE WriteThenCopy(Stamped(resp), keepAlive, remainingRequests, w, c)

\* FileServer.serveLargeFile
serveLargeFile(req, f, modTime, keepAlive, remainingRequests, w, c) ==
    LET rangeHeader == Get(req.Headers, Range)
        r == parseRangeHeader(rangeHeader, f.size)
        notSatisfiable ==
            [NewResponse(416, <<"R","a","n","g","e"," ","N","o","t"," ","S","a","t","i","s","f","i","a","b","l","e">>, NoBody) EXCEPT
                !.Headers = Put(@, "Content-Range",
                                bytes \o <<" ", "*", "/">> \o Itoa(f.size))]
    IN  IF ~f.openOK THEN sendError(500, ErrorOpeningFile, keepAlive, remainingRequests, w)
        ELSE IF rangeHeader = <<>>
        THEN sendFullFile(f, modTime, keepAlive, remainingRequests, w, c)
        ELSE IF r.err
        \* the 416 is written, then the range error itself is returned
        THEN [WriteWhole(Stamped(notSatisfiable), keepAlive, remainingRequests, w)
                 EXCEPT !.err = TRUE]
        ELSE sendRangeFile(f, r.start, r.end, modTime, keepAlive, remainingRequests, w, c)

\* a variant that joins the request path onto the root as it came
FilePathAsRequested(path) == Join(root, [rooted |-> FALSE, segs |-> StripQuery(path)])

\* the path ServeFileStream builds for a request path, when it does not
\* refuse it: the query cut off, the rest cleaned and joined onto the root
FilePath(path) == Join(root, Clean(TRUE, StripQuery(path)))

\* a variant that streams a file of any size when a Range header is present
ServedFromMemoryUnlessRange(req, f) ==
    f.size <= MaxInMemorySize /\ Get(req.Headers, Range) = <<>>

\* the size test of ServeFileStream: the file is read whole and sent in one
\* write, or else opened and copied
ServedFromMemory(req, f) == f.size <= MaxInMemorySize

\* the traversal check of ServeFileStream
Refused(path) == ContainsDotDot(Clean(TRUE, StripQuery(path)))

\* FileServer.ServeFileStream
ServeFileStream(req, f, keepAlive, remainingRequests, w, c) ==
    LET filePath == FilePath(req.Path)
        served == IF f.isDir
                  THEN Join(filePath, [rooted |-> FALSE, segs |-> <<"index.html">>])
                  ELSE filePath
        ifModifiedSince == Get(req.Headers, IfModifiedSince)
        ifModTime == parseHTTPTime(ifModifiedSince)
        compared == ifModifiedSince # <<>> /\ ~ifModTime.err
        modTime == IF compared THEN Truncate(f.modTime) ELSE f.modTime
        at(p, em) == [em EXCEPT !.file = p]
    IN  IF Refused(req.Path)
        THEN sendError(403, Forbidden, keepAlive, remainingRequests, w)
        ELSE IF f.stat = "notexist"
        THEN at(filePath, sendError(404, NotFound, keepAlive, remainingRequests, w))
        ELSE IF f.stat = "error"
        THEN at(filePath, sendError(500, InternalServerError, keepAlive, remainingRequests, w))
        ELSE IF f.isDir /\ ~f.index
        THEN at(served, sendError(403, DirectoryListingDisabled, keepAlive,
                                  remainingRequests, w))
        ELSE IF compared /\ ~After(modTime, Truncate(ifModTime.t))
        THEN at(served, sendNotModified(modTime, keepAlive, remainingRequests, w))
        ELSE IF ServedFromMemory(req, f)
        THEN at(served, serveSmallFile(req, f, modTime, keepAlive, remainingRequests, w))
        ELSE at(served, serveLargeFile(req, f, modTime, keepAlive, remainingRequests, w, c))

\* the files the file system is taken to hold
ModTime == Instant(1136214245, 500000000)
TextType == <<"t","e","x","t","/","p","l","a","i","n",";"," ","c","h","a","r","s","e","t","=","u","t","f","-","8">>
ImageType == <<"i","m","a","g","e","/","p","n","g">>
PlainFile ==
    [stat |-> "ok", isDir |-> FALSE, index |-> TRUE, modTime |-> ModTime,
     size |-> 2048, gz |-> 700, contentType |-> TextType,
     readOK |-> TRUE, openOK |-> TRUE, seekOK |-> TRUE]
LargeFile == [PlainFile EXCEPT !.size = 10 * MaxInMemorySize, !.gz = 4000000]

FileInputs ==
    {PlainFile,
     [PlainFile EXCEPT !.stat = "notexist"],
     [PlainFile EXCEPT !.stat = "error"],
     [PlainFile EXCEPT !.isDir = TRUE, !.index = FALSE],
     [PlainFile EXCEPT !.isDir = TRUE],
     [PlainFile EXCEPT !.readOK = FALSE],
     [PlainFile EXCEPT !.contentType = ImageType, !.gz = 2071],
     LargeFile,
     [LargeFile EXCEPT !.openOK = FALSE],
     [LargeFile EXCEPT !.seekOK = FALSE]}

\* the files a peer's requests are tried on: all of them for a browser, which
\* sends conditional and range requests; for the other peers, whose requests
\* for static files are plain, one of each way a pass can end
FilesFor(c) ==
    IF c.kind = "browser" THEN FileInputs
    ELSE {PlainFile,
          [PlainFile EXCEPT !.stat = "notexist"],
          [PlainFile EXCEPT !.isDir = TRUE, !.index = FALSE],
          LargeFile}

\* what a handler of the buffered branch reads or builds
AssetInputs ==
    {[readOK |-> TRUE, size |-> 2048, gz |-> 700],
     [readOK |-> FALSE, size |-> 0, gz |-> 0]}

(***************************************************************************)
(* Connection object                                                       *)
(***************************************************************************)
\* TCPConn.SetReadDeadline called at instant now with deadline t (0: the zero
\* time): the SO_RCVTIMEO it installs, in seconds, 0 meaning no timeout
SetReadDeadline(t, now) ==
    IF t = 0 THEN 0
    ELSE IF t - now < 0 THEN 0
    ELSE t - now

Instants == {1, 2}

\* TCPConn.SetWriteDeadline called at instant now with deadline t: the
\* SO_SNDTIMEO it installs, in seconds, 0 meaning no timeout
SetWriteDeadline(t, now) ==
    IF t = 0 THEN 0
    ELSE IF t - now < 0 THEN 0
    ELSE t - now

\* the SO_SNDTIMEO of an accepted socket on which SetWriteDeadline was never
\* called
NoSendTimeout == 0

\* TCPConn.Write -> syscall.Write while the peer takes nothing and the send
\* buffer is full: an error when the send timeout has run out, else the call
\* stays blocked
ConnWriteStalled(timeo, wait) ==
    IF timeo > 0 /\ wait >= timeo THEN [kind |-> "error", n |-> -1]
    ELSE [kind |-> "blocked", n |-> 0]

\* TCPConn.Read -> syscall.Read with a 4096-byte buffer: data when the receive
\* buffer holds any, (0, nil) at end of stream, an error on a reset or when the
\* receive timeout has run out, else the call stays blocked
ConnRead(w, consumed, p, timeo, wait) ==
    IF p = "rst" THEN [kind |-> "error", n |-> -1]
    ELSE IF w.arrived - consumed > 0
         THEN [kind |-> "data", n |-> Min(ReadBufSize, w.arrived - consumed)]
    ELSE IF p = "fin" THEN [kind |-> "data", n |-> 0]
    ELSE IF timeo > 0 /\ wait >= timeo THEN [kind |-> "error", n |-> -1]
    ELSE [kind |-> "blocked", n |-> 0]

\* a variant in which no close is deferred
DeferredCloseOmitted(calls) == calls

\* defer conn.Close(): the number of syscall.Close calls after handleConnection returns
DeferredClose(calls) == calls + 1

(***************************************************************************)
(* ParseRequest                                                            *)
(***************************************************************************)
ParseError(e) == [pc |-> "closed", request |-> NoRequest, exit |-> e]

\* request.go: where the header section ends and the body section begins,
\* CRLF CRLF being looked for first
SplitHeaders(w, n) ==
    IF Index(w.crlf, CRLFCRLF, n) # -1
    THEN [idx |-> Index(w.crlf, CRLFCRLF, n), body |-> Index(w.crlf, CRLFCRLF, n) + CRLFCRLF]
    ELSE IF Index(w.lflf, LFLF, n) # -1
    THEN [idx |-> Index(w.lflf, LFLF, n), body |-> Index(w.lflf, LFLF, n) + LFLF]
    ELSE [idx |-> -1, body |-> -1]

\* request.go: the header section parsed and the body decided, n bytes being in allData
ParseHeaderSection(w, n, text) ==
    LET sp == SplitHeaders(w, n)
        hs == BuildHeaders(text.headerLines, 1, NoHeaders)
        hasLength == ContentLength \in DOMAIN hs
        expected == IF hasLength THEN Sscanf(hs[ContentLength]) ELSE 0
        req == [Method |-> text.line.Method, Path |-> text.line.Path,
                Version |-> text.line.Version, Headers |-> hs,
                expectedLength |-> expected, bodyFrom |-> sp.body,
                Body |-> [from |-> 0, len |-> 0]]
    IN  IF sp.idx = -1 THEN ParseError("invalid request format")
        ELSE IF text.line.fields < 3 THEN ParseError("invalid request line")
        ELSE IF hasLength
        THEN IF expected > 0
             THEN IF n - sp.body < expected
                  THEN [pc |-> "readBody", request |-> req, exit |-> ""]
                  ELSE [pc |-> "parsed", exit |-> "",
                        request |-> [req EXCEPT !.Body = [from |-> sp.body, len |-> expected]]]
             ELSE [pc |-> "parsed", request |-> req, exit |-> ""]
        ELSE [pc |-> "parsed", exit |-> "",
              request |-> [req EXCEPT !.Body = [from |-> sp.body, len |-> n - sp.body]]]

\* request.go: the checks made after a read has brought allData to n bytes:
\* "fail" with the error, "break" out of the loop, or "continue" reading
HeaderLoopCheck(w, n) ==
    IF n > MaxRequestSize THEN [do |-> "fail", err |-> "request size exceeded limit"]
    ELSE IF n > MaxHeaderSize /\ ~Contains(w.crlf, CRLFCRLF, n)
    THEN [do |-> "fail", err |-> "request header size exceeded limit"]
    ELSE IF Contains(w.crlf, CRLFCRLF, n) THEN [do |-> "break", err |-> ""]
    ELSE IF Contains(w.lflf, LFLF, n) THEN [do |-> "break", err |-> ""]
    ELSE [do |-> "continue", err |-> ""]

\* request.go: the body loop after a read has brought the bytes taken to n:
\* done when the body section has reached the expected length
BodyLoopDone(req, n) == ~(n - req.bodyFrom < req.expectedLength)

(***************************************************************************)
(* The peer                                                                *)
(***************************************************************************)
HeaderLens == {5, MaxHeaderSize + 16, MaxHeaderSize + ReadBufSize + 20}
\* how a header section ends: CRLF CRLF, LF LF, or not at all (the peer stops
\* in the middle of it)
Terminators == {"crlf", "lf", "none"}
TermLen(t) == IF t = "crlf" THEN CRLFCRLF ELSE IF t = "lf" THEN LFLF ELSE 0
\* a body: absent, 5 bytes, 1 byte then a CRLF CRLF and 5 more bytes, or one
\* byte more than MaxRequestSize
BodyKinds == {"none", "plain", "crlf", "huge"}
BodyLen(b) ==
    IF b = "none" THEN 0
    ELSE IF b = "plain" THEN 5
    ELSE IF b = "crlf" THEN 1 + CRLFCRLF + 5
    ELSE MaxRequestSize + 1

\* the wire after the peer has composed a request: h bytes of header section,
\* the terminator t, the body b
Compose(w, h, t, b) ==
    LET termAt == w.sent + h
        bodyAt == termAt + TermLen(t)
    IN  [sent    |-> bodyAt + BodyLen(b),
         arrived |-> w.arrived,
         crlf    |-> w.crlf \cup (IF t = "crlf" THEN {termAt} ELSE {})
                            \cup (IF b = "crlf" THEN {bodyAt + 1} ELSE {}),
         lflf    |-> w.lflf \cup (IF t = "lf" THEN {termAt} ELSE {})]

ReadPoints == {"readHeaders", "readBody"}

\* The peer is one of four kinds.  A steady peer sends small bodiless requests
\* one at a time, each in one piece, and waits for the answer; a varied peer
\* sends few requests of any shape but the largest, pipelined and in pieces; a
\* bulk peer sends requests whose body is one byte more than MaxRequestSize; a
\* browser asks for static files, one request at a time.
\* what a peer remembers of a response: the number of the exchange, the file
\* and its Last-Modified value
NoCached == [id |-> 0, file |-> NoPath, lastModified |-> <<>>]

Clients == {[kind |-> "steady", reqs |-> MaxSteadyRequests, cached |-> NoCached],
            [kind |-> "varied", reqs |-> MaxVariedRequests, cached |-> NoCached],
            [kind |-> "bulk", reqs |-> MaxVariedRequests, cached |-> NoCached],
            [kind |-> "browser", reqs |-> MaxVariedRequests, cached |-> NoCached]}

\* a browser keeps the Last-Modified of a 200 it received in full
Receive(c, id, em) ==
    IF c.kind = "browser" /\ em.complete /\ em.status = 200
                          /\ "Last-Modified" \in DOMAIN em.fields
    THEN [c EXCEPT !.cached = [id |-> id, file |-> em.file,
                               lastModified |-> em.fields["Last-Modified"]]]
    ELSE c
AnnouncesHuge(x) ==
    \E i \in 1..Len(x.headerLines) :
       /\ x.headerLines[i].name = ContentLength
       /\ Sscanf(x.headerLines[i].value) > MaxRequestSize
SteadyTexts == {x \in HeaderTexts : /\ x.line.fields = 3
                                    /\ \A i \in 1..Len(x.headerLines) :
                                          /\ x.headerLines[i].name = Connection
                                          /\ x.headerLines[i].value = close}
\* requests for static files: conditional on the second before the file's
\* time, for a range, for a compressed answer, and for paths with dots in them;
\* a browser that has kept a Last-Modified also sends it back as
\* If-Modified-Since
PathTraversal == <<"static", "..", "etc", "passwd">>
PathDots == <<"static", "a..b">>
StaticLine(p) == [fields |-> 3, Method |-> "GET", Path |-> p, Version |-> HTTP11]
StaticHeaderLines ==
    {<<HeaderLine(IfModifiedSince, FormatRFC1123(Instant(ModTime.sec - 1, 0), GMT))>>,
     <<HeaderLine(Range, <<"b","y","t","e","s","=","0","-","9","9">>)>>,
     <<HeaderLine(Range, <<"b","y","t","e","s","=","5","-","2">>)>>,
     <<HeaderLine(AcceptEncoding, <<"g","z","i","p",","," ","d","e","f","l","a","t","e">>)>>}
StaticTexts ==
    {[line |-> StaticLine(PathStatic), headerLines |-> h] : h \in StaticHeaderLines}
    \cup {[line |-> StaticLine(p), headerLines |-> <<>>] : p \in {PathTraversal, PathDots}}

BulkTexts == {x \in HeaderTexts : AnnouncesHuge(x)}
VariedTexts == {x \in HeaderTexts : ~AnnouncesHuge(x)}
BrowserTexts == StaticTexts \cup {[line |-> StaticLine(PathStatic), headerLines |-> <<>>]}

TextsOf(c) ==
    IF c.kind = "steady" THEN SteadyTexts
    ELSE IF c.kind = "bulk" THEN BulkTexts
    ELSE IF c.kind = "browser"
    THEN BrowserTexts \cup
         (IF c.cached.id = 0 THEN {}
          ELSE {[line |-> StaticLine(PathStatic),
                 headerLines |-> <<HeaderLine(IfModifiedSince, c.cached.lastModified)>>]})
    ELSE VariedTexts

\* the peer composes one more request
ClientCompose ==
    /\ pc \in ReadPoints
    /\ peer = "open"
    /\ client.reqs > 0
    /\ IF client.kind \in {"steady", "browser"}
       THEN /\ wire.sent = allData
            /\ \E h \in {x \in HeaderLens : x <= MaxHeaderSize} :
                   wire' = Compose(wire, h, "crlf", "none")
       ELSE IF client.kind = "bulk"
       THEN /\ wire.sent = allData
            /\ \E h \in {x \in HeaderLens : x <= MaxHeaderSize} :
                   wire' = Compose(wire, h, "crlf", "huge")
       ELSE /\ wire.sent - allData <= PipelineWindow
            /\ \E h \in HeaderLens, t \in Terminators, b \in BodyKinds \ {"huge"} :
                   /\ h > MaxHeaderSize => wire.sent = allData /\ b = "none"
                   /\ t = "none" => h <= MaxHeaderSize /\ b = "none"
                   /\ wire' = Compose(wire, h, t, b)
    /\ client' = [client EXCEPT !.reqs = @ - 1]
    /\ exchange' = NoExchange
    /\ UNCHANGED <<version, pc, requestCount, rcvTimeo, idle, peer, allData,
                   request, eofRead, responses, closeCalls, exit, call, server>>

\* composed bytes reach the receive buffer: all of them, or a few bytes of a
\* short tail a varied peer sent in pieces
Deliver ==
    /\ pc \in ReadPoints
    /\ wire.arrived < wire.sent
    /\ \E n \in {wire.sent - wire.arrived, TrickleBytes} :
          /\ n <= wire.sent - wire.arrived
          /\ n = TrickleBytes => /\ client.kind = "varied"
                                 /\ wire.sent - wire.arrived <= TrickleLimit
          /\ wire' = [wire EXCEPT !.arrived = @ + n]
    /\ exchange' = NoExchange
    /\ UNCHANGED <<version, pc, requestCount, rcvTimeo, idle, peer, allData,
                   request, eofRead, responses, closeCalls, exit, client, call, server>>

\* the peer closes its end in an orderly way, everything it sent having arrived
PeerClose ==
    /\ pc \in ReadPoints
    /\ peer = "open"
    /\ wire.arrived = wire.sent
    /\ peer' = "fin"
    /\ exchange' = NoExchange
    /\ UNCHANGED <<version, pc, requestCount, rcvTimeo, idle, wire, allData,
                   request, eofRead, responses, closeCalls, exit, client, call, server>>

\* the peer resets the connection
PeerReset ==
    /\ pc \in ReadPoints
    /\ peer = "open"
    /\ peer' = "rst"
    /\ exchange' = NoExchange
    /\ UNCHANGED <<version, pc, requestCount, rcvTimeo, idle, wire, allData,
                   request, eofRead, responses, closeCalls, exit, client, call, server>>

\* the worker is inside a read that has nothing to return yet
Blocked ==
    /\ pc \in ReadPoints
    /\ ConnRead(wire, allData, peer, rcvTimeo, idle).kind = "blocked"

\* the peer has closed, nothing is left to take, and the worker has already
\* been told so: every further read returns at once with nothing
Spinning ==
    /\ pc \in ReadPoints
    /\ peer = "fin"
    /\ wire.arrived = allData
    /\ eofRead

\* time passes while the worker is in a read loop with nothing to take; while
\* the read is blocked it cannot pass beyond the moment the timeout runs out
Tick ==
    /\ Blocked \/ Spinning
    /\ idle < MaxWait
    /\ idle' = IF Blocked /\ rcvTimeo > 0
               THEN Min(idle + TickSeconds, rcvTimeo)
               ELSE Min(idle + TickSeconds, MaxWait)
    /\ exchange' = NoExchange
    /\ UNCHANGED <<version, pc, requestCount, rcvTimeo, wire, peer, allData,
                   request, eofRead, responses, closeCalls, exit, client, call, server>>

(***************************************************************************)
(* The worker: Server.handleConnection                                     *)
(***************************************************************************)
\* handleConnection up to the loop: the close is deferred, the first deadline set
Start ==
    /\ pc = "accepted"
    /\ pc' = "readHeaders"
    /\ rcvTimeo' \in {SetReadDeadline(now + ReadDeadlineSeconds, now) : now \in Instants}
    /\ idle' = 0
    /\ exchange' = NoExchange
    /\ UNCHANGED <<version, requestCount, wire, peer, allData, request, eofRead,
                   responses, closeCalls, exit, client, call, server>>

\* handleConnection returns: its locals are gone, the deferred conn.Close()
\* runs, and what the socket still held is discarded with it
Return(reason) ==
    /\ pc' = "closed"
    /\ exit' = reason
    /\ closeCalls' = DeferredClose(closeCalls)
    /\ allData' = 0
    /\ request' = NoRequest
    /\ eofRead' = FALSE
    /\ wire' = EmptyWire

\* one conn.Read of ParseRequest's header loop and what follows it up to the
\* next read or to ParseRequest's return
ReadHeaders ==
    /\ pc = "readHeaders"
    /\ LET r == ConnRead(wire, allData, peer, rcvTimeo, idle)
           n == allData + r.n
           chk == HeaderLoopCheck(wire, n)
       IN  /\ r.kind # "blocked"
           /\ IF r.kind = "error" THEN Return("read error")
              ELSE IF chk.do = "fail" THEN Return(chk.err)
              ELSE IF chk.do = "break"
              THEN \E text \in TextsOf(client) :
                      LET res == ParseHeaderSection(wire, n, text)
                      IN  IF res.pc = "closed" THEN Return(res.exit)
                          ELSE /\ pc' = res.pc
                               /\ request' = res.request
                               /\ allData' = n
                               /\ eofRead' = FALSE
                               /\ UNCHANGED <<wire, exit, closeCalls>>
              ELSE /\ allData' = n
                   /\ eofRead' = (r.n = 0)
                   /\ UNCHANGED <<pc, request, wire, exit, closeCalls>>
    /\ idle' = IF ConnRead(wire, allData, peer, rcvTimeo, idle).n > 0 THEN 0 ELSE idle
    /\ exchange' = NoExchange
    /\ UNCHANGED <<version, requestCount, rcvTimeo, peer, responses, client, call, server>>

\* one conn.Read of ParseRequest's body loop and what follows it
ReadBody ==
    /\ pc = "readBody"
    /\ LET r == ConnRead(wire, allData, peer, rcvTimeo, idle)
           n == allData + r.n
       IN  /\ r.kind # "blocked"
           /\ IF r.kind = "error" THEN Return("read error")
              ELSE IF BodyLoopDone(request, n)
              THEN /\ pc' = "parsed"
                   /\ request' = [request EXCEPT !.Body =
                         [from |-> request.bodyFrom, len |-> request.expectedLength]]
                   /\ allData' = n
                   /\ eofRead' = FALSE
                   /\ UNCHANGED <<wire, exit, closeCalls>>
              ELSE /\ allData' = n
                   /\ eofRead' = (r.n = 0)
                   /\ UNCHANGED <<pc, request, wire, exit, closeCalls>>
    /\ idle' = IF ConnRead(wire, allData, peer, rcvTimeo, idle).n > 0 THEN 0 ELSE idle
    /\ exchange' = NoExchange
    /\ UNCHANGED <<version, requestCount, rcvTimeo, peer, responses, client, call, server>>

\* a variant that goes on after an error
ContinuesIgnoringError(em, keepAlive) == keepAlive

\* server.go: the loop goes on to another ParseRequest unless the handler or
\* the write returned an error or the keep-alive flag is off
Continues(em, keepAlive) == ~em.err /\ keepAlive

\* the end of a pass of the loop, the emission em having been made on flag
\* keepAlive: return on an error or without keep-alive, else set the deadline
\* and call ParseRequest again
EndOfPass(em, keepAlive, errExit) ==
    /\ requestCount' = requestCount + 1
    /\ exchange' = [id |-> requestCount + 1, keepAlive |-> keepAlive,
                    since |-> Get(request.Headers, IfModifiedSince), emission |-> em]
    /\ client' = Receive(client, requestCount + 1, em)
    /\ responses' = responses + (IF em.wrote THEN 1 ELSE 0)
    /\ IF ~Continues(em, keepAlive)
       THEN /\ Return(IF em.err THEN errExit ELSE "close")
            /\ UNCHANGED rcvTimeo
       ELSE /\ pc' = "readHeaders"
            /\ rcvTimeo' \in {SetReadDeadline(now + ReadDeadlineSeconds, now) : now \in Instants}
            /\ wire' = Rebase(wire, allData)
            /\ allData' = 0
            /\ request' = NoRequest
            /\ eofRead' = FALSE
            /\ UNCHANGED <<exit, closeCalls>>
    /\ idle' = 0
    /\ UNCHANGED <<version, peer, call, server>>

\* handleConnection after ParseRequest, streaming branch
HandleStream ==
    /\ pc = "parsed"
    /\ NeedsStreaming(request)
    /\ \E f \in FilesFor(client), o \in StreamOutcomes :
          LET keepAlive == KeepAlive(version, request.Headers)
              shouldKeepAlive == ShouldKeepAlive(keepAlive, requestCount + 1)
              em == ServeFileStream(request, f, shouldKeepAlive,
                                    RemainingRequests(requestCount + 1), o[1], o[2])
          IN  EndOfPass(em, shouldKeepAlive, "stream error")

\* handleConnection after ParseRequest, buffered branch
HandleBuffered ==
    /\ pc = "parsed"
    /\ ~NeedsStreaming(request)
    /\ \E a \in AssetInputs, w \in WriteOutcomes :
          LET keepAlive == KeepAlive(version, request.Headers)
              shouldKeepAlive == ShouldKeepAlive(keepAlive, requestCount + 1)
              em == WriteResponse(Route(request, a), shouldKeepAlive,
                                  RemainingRequests(requestCount + 1), w)
          IN  EndOfPass(em, IF shouldKeepAlive THEN keepAlive ELSE FALSE, "write error")

(***************************************************************************)
(* Server.Start.  Connections are numbered in the order in which they      *)
(* arrive; a descriptor is the lowest number the process has not open.     *)
(* fds maps the open descriptors of accepted sockets to their connection,  *)
(* workers are the goroutines started with "go s.handleConnection", and    *)
(* log holds every read, write and close made on a connection's            *)
(* descriptor with the goroutine that made it; failed holds the kinds of   *)
(* error listener.Accept has returned.                                     *)
(***************************************************************************)
MaxConnections == 3

AcceptLoop == 0

Listening ==
    [running |-> TRUE, arrived |-> 0, backlog |-> {}, fds |-> <<>>,
     workers |-> {}, handed |-> {}, failed |-> {}, log |-> {}]

\* the descriptor the kernel gives to a new socket
LowestFree(fds) == CHOOSE d \in 1..(MaxConnections + 1) :
                      /\ d \notin DOMAIN fds
                      /\ \A e \in 1..(d - 1) : e \in DOMAIN fds

\* fds without descriptor d
Released(fds, d) == [e \in DOMAIN fds \ {d} |-> fds[e]]

\* an operation on descriptor d by goroutine g: it acts on the connection d
\* refers to at that moment
Logged(s, g, op, d) ==
    IF d \in DOMAIN s.fds
    THEN s.log \cup {[actor |-> g, op |-> op, conn |-> s.fds[d]]}
    ELSE s.log

\* a variant of the accept loop that gives up on an accept error
AcceptFailureEnds(s) == [s EXCEPT !.running = FALSE]

\* Server.Start, "if err != nil { continue }"
AcceptFailure(s) == s

NoCall == [fn |-> "none"]

Init ==
    /\ version \in {HTTP10, HTTP11}
    /\ pc = "accepted"
    /\ requestCount = 0
    /\ rcvTimeo = 0
    /\ idle = 0
    /\ wire = EmptyWire
    /\ peer = "open"
    /\ allData = 0
    /\ request = NoRequest
    /\ eofRead = FALSE
    /\ exchange = NoExchange
    /\ responses = 0
    /\ closeCalls = 0
    /\ exit = ""
    /\ client \in Clients
    /\ call = NoCall
    /\ server = Listening

Next ==
    \/ Start
    \/ ReadHeaders
    \/ ReadBody
    \/ HandleStream
    \/ HandleBuffered
    \/ ClientCompose
    \/ Deliver
    \/ PeerClose
    \/ PeerReset
    \/ Tick

Spec == Init /\ [][Next]_vars

(***************************************************************************)
(* The functions of the file server and of the compression middleware      *)
(* applied on their own, to more inputs than one connection's peer sends:  *)
(* one call in a behaviour, and for CompressResponse a second one on the   *)
(* response the first returned.  call holds the arguments of the latest    *)
(* call and its result.                                                    *)
(***************************************************************************)
\* a GET request with the given path and header map
Req(path, headers) ==
    [NoRequest EXCEPT !.Method = "GET", !.Path = path, !.Version = HTTP11,
                      !.Headers = headers]

\* request paths under /static/: up to MaxSegments further segments, each a
\* name, ".", "..", a name holding two dots, or empty (a repeated slash), with
\* or without a query string; and /static/../etc/passwd
MaxSegments == 3
Segments == {"static", "f", "..", ".", "", "a..b"}
SegmentSeqs == UNION {[1..n -> Segments] : n \in 1..MaxSegments}
CallPaths ==
    {<<"static">> \o s : s \in SegmentSeqs}
    \cup {<<"static">> \o s \o <<"?", "..">> : s \in SegmentSeqs}
    \cup {PathTraversal}

\* If-Modified-Since values: none, an instant t around the file's time written
\* in one of the three layouts, or a text in none of them
HTTPDate(d) ==
    CASE d.layout = "RFC1123" -> FormatRFC1123(d.t, d.zone)
      [] d.layout = "RFC850"  -> FormatRFC850(d.t, d.zone)
      [] d.layout = "ANSIC"   -> FormatANSIC(d.t)
SinceInstants == {Instant(ModTime.sec + d, 0) : d \in {-1, 0, 1}}
SinceInputs ==
    {[kind |-> "absent", text |-> <<>>, t |-> Instant(0, 0)],
     [kind |-> "garbage", text |-> <<"y","e","s","t","e","r","d","a","y">>, t |-> Instant(0, 0)],
     [kind |-> "garbage", text |-> <<"2","0","0","6","-","0","1","-","0","2","T","1","5",":","0","4",":","0","5","Z">>, t |-> Instant(0, 0)]}
    \cup {[kind |-> "date", text |-> HTTPDate([layout |-> l, zone |-> z, t |-> t]), t |-> t] :
             l \in {"RFC1123", "RFC850", "ANSIC"}, z \in {GMT, UTC}, t \in SinceInstants}
SinceHeaders(s) == IF s.kind = "absent" THEN NoHeaders ELSE (IfModifiedSince :> s.text)

\* files an If-Modified-Since is tried on: small and large, with a time on a
\* whole second and off it
ConditionalFiles ==
    {[f EXCEPT !.modTime = m] :
        f \in {PlainFile, LargeFile, [PlainFile EXCEPT !.isDir = TRUE]},
        m \in {ModTime, Truncate(ModTime)}}

\* Range values: bytes=S-E and bytes=S- over offsets at both ends of the file,
\* and values of other forms
RangeOffsets(f) == {0, 1, 99, f.size - 1, f.size}
RangeInputs(f) ==
    {[kind |-> "closed", start |-> s, end |-> e,
      text |-> bytes \o <<"=">> \o Itoa(s) \o <<"-">> \o Itoa(e)] :
        s \in RangeOffsets(f), e \in RangeOffsets(f)}
    \cup {[kind |-> "open", start |-> s, end |-> f.size - 1,
           text |-> bytes \o <<"=">> \o Itoa(s) \o <<"-">>] : s \in RangeOffsets(f)}
    \cup {[kind |-> k, start |-> 0, end |-> 0, text |-> x] :
            <<k, x>> \in {<<"suffix", <<"b","y","t","e","s","=","-","5","0","0">>>>,
                          <<"multi", <<"b","y","t","e","s","=","0","-","1",",","5","-","6">>>>,
                          <<"unit", <<"i","t","e","m","s","=","0","-","9","9">>>>,
                          <<"malformed", <<"b","y","t","e","s","=","1","0","0">>>>,
                          <<"malformed", <<"b","y","t","e","s","=","a","-","b">>>>,
                          <<"malformed", <<"b","y","t","e","s","=">>>>}}
RangeFiles ==
    {PlainFile, LargeFile, [LargeFile EXCEPT !.size = MaxInMemorySize + 1],
     [PlainFile EXCEPT !.size = MaxInMemorySize], [LargeFile EXCEPT !.seekOK = FALSE]}

\* one call of ServeFileStream, on a connection that is to be kept alive
ServeCall(req, f, since, range, w, c) ==
    [fn |-> "ServeFileStream", req |-> req, f |-> f, since |-> since, range |-> range,
     w |-> w, c |-> c,
     out |-> ServeFileStream(req, f, TRUE, maxRequests - 1, w, c)]

NoSince == [kind |-> "absent", text |-> <<>>, t |-> Instant(0, 0)]
NoRange == [kind |-> "absent", start |-> 0, end |-> 0, text |-> <<>>]

\* ServeFileStream on a path the router sends to it
CallServePath ==
    /\ call = NoCall
    /\ \E p \in CallPaths, f \in FileInputs :
          /\ NeedsStreaming(Req(p, NoHeaders))
          /\ call' = ServeCall(Req(p, NoHeaders), f, NoSince, NoRange, "full", "ok")
    /\ UNCHANGED <<connVars, server>>

\* ServeFileStream on a conditional request
CallServeConditional ==
    /\ call = NoCall
    /\ \E f \in ConditionalFiles, s \in SinceInputs :
          call' = ServeCall(Req(PathStatic, SinceHeaders(s)), f, s, NoRange, "full", "ok")
    /\ UNCHANGED <<connVars, server>>

\* ServeFileStream on a range request
CallServeRange ==
    /\ call = NoCall
    /\ \E f \in RangeFiles, o \in StreamOutcomes :
          \E r \in RangeInputs(f) :
              call' = ServeCall(Req(PathStatic, (Range :> r.text)), f, NoSince, r, o[1], o[2])
    /\ UNCHANGED <<connVars, server>>

\* ServeFileStream on a HEAD request, which the router sends to it like a GET:
\* for a small file, a large file, and a range of a large file
CallServeHead ==
    /\ call = NoCall
    /\ \E f \in FileInputs, o \in StreamOutcomes :
          \E r \in {NoRange} \cup {x \in RangeInputs(f) : x.kind \in {"closed", "open"}} :
              LET req == [Req(PathStatic, IF r = NoRange THEN NoHeaders
                                          ELSE (Range :> r.text))
                            EXCEPT !.Method = "HEAD"]
              IN  /\ NeedsStreaming(req)
                  /\ call' = [ServeCall(req, f, NoSince, r, o[1], o[2])
                                EXCEPT !.fn = "ServeFileStream HEAD"]
    /\ UNCHANGED <<connVars, server>>

\* files around the in-memory limit, of a compressible and of another type,
\* that can be opened and read, opened only, or read only
SizedFiles ==
    {[PlainFile EXCEPT !.size = n, !.gz = n \div 3, !.contentType = ty,
                       !.readOK = a[1], !.openOK = a[2]] :
        n \in {PlainFile.size, MaxInMemorySize - 1, MaxInMemorySize,
               MaxInMemorySize + 1, LargeFile.size},
        ty \in {TextType, ImageType},
        a \in {<<TRUE, TRUE>>, <<TRUE, FALSE>>, <<FALSE, TRUE>>}}

\* ServeFileStream on files around the in-memory limit, asked for with and
\* without Accept-Encoding: gzip
CallServeSized ==
    /\ call = NoCall
    /\ \E f \in SizedFiles, gz \in BOOLEAN, o \in StreamOutcomes :
          LET req == Req(PathStatic, IF gz THEN (AcceptEncoding :> gzip) ELSE NoHeaders)
          IN  call' = [ServeCall(req, f, NoSince, NoRange, o[1], o[2])
                         EXCEPT !.fn = "ServeFileStream sized"]
                      @@ [gzipAccepted |-> gz]
    /\ UNCHANGED <<connVars, server>>

\* response bodies given to the middleware: empty, around the size threshold,
\* with an encoding that is smaller, as long or longer, and one whose encoding
\* can itself be shrunk again
CallBodies ==
    {NoBody} \cup
    {[src |-> "text", text |-> <<>>, from |-> 0, len |-> b[1], gz |-> b[2],
      gzgz |-> b[3], enc |-> "identity"] :
        b \in {<<minSizeForCompression - 1, 500, 523>>,
               <<minSizeForCompression, 500, 523>>,
               <<minSizeForCompression, minSizeForCompression, 1047>>,
               <<minSizeForCompression, 1047, 1070>>,
               <<2048, 700, 723>>,
               <<MaxInMemorySize, 2000, 1500>>}}

\* Content-Type values, each with the type/subtype it names ("" when the
\* header is absent)
TypeInputs ==
    {[text |-> <<>>, primary |-> <<>>],
     [text |-> TextPlain, primary |-> TextPlain],
     [text |-> <<"T","e","x","t","/","H","T","M","L",";"," ","C","h","a","r","s","e","t","=","U","T","F","-","8">>, primary |-> <<"t","e","x","t","/","h","t","m","l">>],
     [text |-> <<" ","a","p","p","l","i","c","a","t","i","o","n","/","j","s","o","n"," ",";","c","h","a","r","s","e","t","=","u","t","f","-","8">>, primary |-> ApplicationJSON],
     [text |-> ImageType, primary |-> ImageType],
     [text |-> <<"t","e","x","t","/","p","l","a","i","n","e","r">>, primary |-> <<"t","e","x","t","/","p","l","a","i","n","e","r">>]}

\* Accept-Encoding values, each with the content codings it lists
AcceptInputs ==
    {[text |-> <<>>, codings |-> {}],
     [text |-> gzip, codings |-> {"gzip"}],
     [text |-> <<"g","z","i","p",","," ","d","e","f","l","a","t","e">>, codings |-> {"gzip", "deflate"}],
     [text |-> <<"d","e","f","l","a","t","e",","," ","G","Z","I","P",";","q","=","0",".","5">>, codings |-> {"deflate", "gzip"}],
     [text |-> <<"x","-","g","z","i","p">>, codings |-> {"x-gzip"}],
     [text |-> <<"i","d","e","n","t","i","t","y">>, codings |-> {"identity"}],
     [text |-> <<"d","e","f","l","a","t","e",",","b","r">>, codings |-> {"deflate", "br"}]}

\* Content-Encoding values a response may arrive with
EncodingInputs == {<<>>, gzip, <<"b","r">>}

\* the response a handler hands to the middleware; one that arrives with
\* Content-Encoding: gzip has a gzip stream as its body
CallResponse(b, ty, ce) ==
    LET typed == IF ty.text = <<>> THEN NewResponse(200, OK, b)
                 ELSE WithType(NewResponse(200, OK, b), ty.text)
    IN  IF ce = <<>> THEN typed
        ELSE [typed EXCEPT !.Headers = Put(@, "Content-Encoding", ce),
                           !.Body = IF ce = gzip /\ b # NoBody
                                    THEN compressContent(b) ELSE b]

\* CompressResponse on a response and the request it answers
CallCompressResponse ==
    /\ call = NoCall
    /\ \E b \in CallBodies, ty \in TypeInputs, ce \in EncodingInputs, ae \in AcceptInputs :
          /\ b = NoBody => ce = <<>>
          /\ LET resp == CallResponse(b, ty, ce)
                 req  == Req(PathHello, IF ae.text = <<>> THEN NoHeaders
                                        ELSE (AcceptEncoding :> ae.text))
                 out  == CompressResponse(resp, req)
             IN  call' = [fn |-> "CompressResponse", type |-> ty, accept |-> ae,
                          req |-> req, in |-> resp, once |-> out, out |-> out,
                          applications |-> 1]
    /\ UNCHANGED <<connVars, server>>

\* CompressResponse on the response it has just returned
CallCompressResponseAgain ==
    /\ call.fn = "CompressResponse"
    /\ call.applications = 1
    /\ call' = [call EXCEPT !.in = call.out,
                            !.out = CompressResponse(call.out, call.req),
                            !.applications = 2]
    /\ UNCHANGED <<connVars, server>>

\* methods and paths for the dispatch: a path with what is true of its text,
\* namely whether it starts with /static/
DispatchMethods == {"GET", "HEAD", "POST", "DELETE"}
DispatchPath(path, static) == [Path |-> path, static |-> static]
DispatchPaths ==
    {DispatchPath(r[2], FALSE) : r \in Routes}
    \cup {DispatchPath(PathStatic, TRUE),                   \* /static/f
          DispatchPath(<<"static", "">>, TRUE),             \* /static/
          DispatchPath(<<"static", "api", "users">>, TRUE), \* /static/api/users
          DispatchPath(<<"static", "f", "?", "v">>, TRUE),  \* /static/f?v
          DispatchPath(<<"static">>, FALSE),                \* /static
          DispatchPath(<<"static", "?", "v">>, FALSE),      \* /static?v
          DispatchPath(<<"staticf">>, FALSE),               \* /staticf
          DispatchPath(<<"a", "static", "f">>, FALSE),      \* /a/static/f
          DispatchPath(<<"hello", "?", "v">>, FALSE),       \* /hello?v
          DispatchPath(<<"hello", "">>, FALSE),             \* /hello/
          DispatchPath(PathMissing, FALSE)}                 \* /nope
DispatchHeaders == {NoHeaders, (AcceptEncoding :> gzip), (Connection :> close)}

\* the choice handleConnection makes between HandleStream and Handle for one
\* request, with the response the chosen handler gives
CallDispatch ==
    /\ call = NoCall
    /\ \E method \in DispatchMethods, p \in DispatchPaths, h \in DispatchHeaders,
          a \in AssetInputs, f \in {PlainFile, [PlainFile EXCEPT !.stat = "notexist"]} :
          LET req == [Req(p.Path, h) EXCEPT !.Method = method]
          IN  call' = IF NeedsStreaming(req)
                      THEN [fn |-> "Dispatch", req |-> req, static |-> p.static,
                            a |-> a, handler |-> "HandleStream",
                            out |-> ServeFileStream(req, f, TRUE, maxRequests - 1,
                                                    "full", "ok")]
                      ELSE [fn |-> "Dispatch", req |-> req, static |-> p.static,
                            a |-> a, handler |-> "Handle", out |-> Route(req, a)]
    /\ UNCHANGED <<connVars, server>>

\* request lines of two, three and four fields, and header sections with a
\* line that has no colon before, after or in place of a Connection line
Garbage == <<"g","a","r","b","a","g","e">>
NoColonLine == [colon |-> FALSE, name |-> <<>>, value |-> Garbage]
ParseLines ==
    RequestLines
    \cup {[fields |-> 4, Method |-> "GET", Path |-> PathHello, Version |-> HTTP11],
          [fields |-> 1, Method |-> "GET", Path |-> <<>>, Version |-> ""]}
ParseHeaderLines ==
    ConnectionLines
    \cup {<<NoColonLine>>,
          <<NoColonLine, HeaderLine(Connection, close)>>,
          <<HeaderLine(Connection, close), NoColonLine>>,
          <<HeaderLine(ContentLength, <<"5">>), NoColonLine, NoColonLine>>}

\* ParseRequest on a header section that arrived in one read with its
\* terminator, from the split on
CallParseRequest ==
    /\ call = NoCall
    /\ \E rl \in ParseLines, hl \in ParseHeaderLines, t \in {"crlf", "lf"},
          b \in {"none", "plain"} :
          LET text == [line |-> rl, headerLines |-> hl]
              w == Compose(EmptyWire, ReadBufSize \div 2, t, b)
          IN  call' = [fn |-> "ParseRequest", text |-> text, wire |-> w,
                       out |-> ParseHeaderSection(w, w.sent, text)]
    /\ UNCHANGED <<connVars, server>>

(***************************************************************************)
(* tcp.Listen and TCPListener.Accept, as sequences of system calls on the  *)
(* process's descriptor table.  A table is the set of open descriptors and *)
(* the descriptors syscall.Close was called on, in order; every step of a  *)
(* call either succeeds or is the one that fails.                          *)
(***************************************************************************)
MaxOpen == 3

\* the value the helpers return in place of a descriptor with an error
NoDescriptor == -1

\* the descriptor the kernel gives to a new socket: the lowest one not open
NewDescriptor(st) == CHOOSE d \in 1..(MaxOpen + 1) :
                        /\ d \notin st.open
                        /\ \A e \in 1..(d - 1) : e \in st.open

\* syscall.Socket and syscall.Accept when they succeed
Opened(st, d) == [st EXCEPT !.open = @ \cup {d}]

\* syscall.Close(d)
SyscallClose(st, d) == [open |-> st.open \ {d}, closed |-> Append(st.closed, d)]

\* what Listen and Accept return: the descriptor of the Listener or
\* Connection, or an error, and the table they leave
Returned(fd, st) == [err |-> fd = NoDescriptor, fd |-> fd, st |-> st]

ListenFailures ==
    {"none", "resolve", "socket", "reuseaddr", "keepalive", "nonblock",
     "parseip", "bind", "listen"}

\* a variant that returns the bind error with the socket left open
ListenLeavingUnbound(failure, st) ==
    LET fd == NewDescriptor(st)
    IN  IF failure \in {"resolve", "socket"} THEN Returned(NoDescriptor, st)
        ELSE IF failure \in {"reuseaddr", "keepalive", "nonblock"}
        THEN Returned(NoDescriptor, SyscallClose(Opened(st, fd), fd))
        ELSE IF failure \in {"parseip", "bind"}
        THEN Returned(NoDescriptor, Opened(st, fd))
        ELSE IF failure = "listen"
        THEN Returned(NoDescriptor, SyscallClose(Opened(st, fd), fd))
        ELSE Returned(fd, Opened(st, fd))

\* tcp.Listen: ResolveTCPAddr, createSocket, setSocketOptions, bindSocket,
\* listenSocket; failure names the step that fails
Listen(failure, st) ==
    LET fd == NewDescriptor(st)
    IN  IF failure \in {"resolve", "socket"} THEN Returned(NoDescriptor, st)
        ELSE IF failure \in {"reuseaddr", "keepalive", "nonblock"}
        THEN Returned(NoDescriptor, SyscallClose(Opened(st, fd), fd))
        ELSE IF failure \in {"parseip", "bind"}
        THEN Returned(NoDescriptor, SyscallClose(Opened(st, fd), fd))
        ELSE IF failure = "listen"
        THEN Returned(NoDescriptor, SyscallClose(Opened(st, fd), fd))
        ELSE Returned(fd, Opened(st, fd))

AcceptFailures == {"none", "accept", "peertype", "getsockname", "localtype"}

\* acceptSocket: syscall.Accept, then the peer's address decoded
acceptSocket(failure, st) ==
    LET nfd == NewDescriptor(st)
    IN  IF failure = "accept" THEN Returned(NoDescriptor, st)
        ELSE IF failure = "peertype"
        THEN Returned(NoDescriptor, SyscallClose(Opened(st, nfd), nfd))
        ELSE Returned(nfd, Opened(st, nfd))

\* TCPListener.Accept: acceptSocket, syscall.Getsockname, the local address
\* decoded
Accept(failure, st) ==
    LET a == acceptSocket(failure, st)
    IN  IF a.err THEN a
        ELSE IF failure \in {"getsockname", "localtype"}
        THEN Returned(NoDescriptor, SyscallClose(a.st, a.fd))
        ELSE Returned(a.fd, a.st)

\* the descriptor tables a call starts from: any descriptors open, none closed
\* by the call yet; Accept needs its listener's descriptor open
Tables == {[open |-> o, closed |-> <<>>] : o \in SUBSET (1..MaxOpen)}

\* tcp.Listen with each of its steps failing, or none
CallListen ==
    /\ call = NoCall
    /\ \E st \in Tables, x \in ListenFailures :
          call' = [fn |-> "Listen", failure |-> x, before |-> st.open,
                   listener |-> NoDescriptor, out |-> Listen(x, st)]
    /\ UNCHANGED <<connVars, server>>

\* TCPListener.Accept on an open listener with each of its steps failing, or
\* none
CallAccept ==
    /\ call = NoCall
    /\ \E st \in Tables, x \in AcceptFailures :
          \E l \in st.open :
              call' = [fn |-> "Accept", failure |-> x, before |-> st.open,
                       listener |-> l, out |-> Accept(x, st)]
    /\ UNCHANGED <<connVars, server>>

CallsNext ==
    \/ CallListen
    \/ CallAccept
    \/ CallDispatch
    \/ CallParseRequest
    \/ CallServePath
    \/ CallServeConditional
    \/ CallServeRange
    \/ CallCompressResponse
    \/ CallCompressResponseAgain

\* the calls are made with no connection at work: one server, one idle peer
CallsInit == Init /\ version = HTTP11 /\ client.kind = "browser"

Calls == CallsInit /\ [][CallsNext]_vars

\* the calls of ServeFileStream that try the request method and the size of
\* the file
FileCallsNext ==
    \/ CallServeSized
    \/ CallServeHead

FileCalls == CallsInit /\ [][FileCallsNext]_vars

(***************************************************************************)
(* The accept loop and the workers it starts.  A worker is taken here as   *)
(* what it does to its descriptor: reads and writes, then one close, after *)
(* which it is done (handleConnection closes through its defer only).      *)
(***************************************************************************)
\* a peer completes a handshake: the connection waits in the accept queue
Arrive ==
    /\ server.arrived < MaxConnections
    /\ server' = [server EXCEPT !.arrived = @ + 1, !.backlog = @ \cup {server.arrived + 1}]
    /\ UNCHANGED <<connVars, call>>

\* one pass of the loop: listener.Accept returns a connection and
\* "go s.handleConnection(tcpConn)" starts its worker
AcceptAndSpawn ==
    /\ server.running
    /\ \E c \in server.backlog :
          LET nfd == LowestFree(server.fds)
              w   == Cardinality(server.workers) + 1
          IN  server' = [server EXCEPT
                            !.backlog = @ \ {c},
                            !.fds = (nfd :> c) @@ @,
                            !.handed = @ \cup {c},
                            !.workers = @ \cup {[id |-> w, conn |-> c, fd |-> nfd,
                                                 pc |-> "running"]}]
    /\ UNCHANGED <<connVars, call>>

\* one pass of the loop in which listener.Accept returns an error: accept(2)
\* itself fails, with or without a connection taken off the queue, or
\* Getsockname fails and Accept closes the new descriptor
AcceptFails ==
    /\ server.running
    /\ \/ server' = AcceptFailure([server EXCEPT !.failed = @ \cup {"accept"}])
       \/ \E c \in server.backlog :
             server' = AcceptFailure([server EXCEPT !.failed = @ \cup {"aborted"},
                                                    !.backlog = @ \ {c}])
       \/ \E c \in server.backlog :
             LET nfd == LowestFree(server.fds)
                 got == [server EXCEPT !.failed = @ \cup {"getsockname"},
                                       !.backlog = @ \ {c},
                                       !.fds = (nfd :> c) @@ @]
             IN  server' = AcceptFailure(
                              [got EXCEPT !.log = Logged(got, AcceptLoop, "close", nfd),
                                          !.fds = Released(@, nfd)])
    /\ UNCHANGED <<connVars, call>>

\* a worker reads from or writes to its descriptor
WorkerIO ==
    /\ \E w \in server.workers, op \in {"read", "write"} :
          /\ w.pc = "running"
          /\ server' = [server EXCEPT !.log = Logged(server, w.id, op, w.fd)]
    /\ UNCHANGED <<connVars, call>>

\* a worker returns: the deferred conn.Close
WorkerClose ==
    /\ \E w \in server.workers :
          /\ w.pc = "running"
          /\ server' = [server EXCEPT
                            !.log = Logged(server, w.id, "close", w.fd),
                            !.fds = Released(@, w.fd),
                            !.workers = (@ \ {w}) \cup {[w EXCEPT !.pc = "done"]}]
    /\ UNCHANGED <<connVars, call>>

ServingNext ==
    \/ Arrive
    \/ AcceptAndSpawn
    \/ AcceptFails
    \/ WorkerIO
    \/ WorkerClose

Serving == CallsInit /\ [][ServingNext]_vars

(***************************************************************************)
(* The Connection's Close called by a caller that calls it again on a      *)
(* Connection already closed, which handleConnection itself never does.    *)
(***************************************************************************)
NoConnection == 0

\* TCPConn.Close by goroutine g on a Connection whose descriptor field is d:
\* syscall.Close(c.fd), which closes whatever d refers to at that moment and
\* fails with EBADF when d is not open
TCPConnClose(s, g, d) ==
    [s EXCEPT !.log = @ \cup {[actor |-> g, op |-> "close",
                               conn |-> IF d \in DOMAIN s.fds THEN s.fds[d]
                                        ELSE NoConnection]},
              !.fds = Released(@, d)]

\* Close once more on a Connection that was closed
CloseAgain ==
    /\ \E w \in server.workers :
          /\ w.pc = "done"
          /\ server' = [TCPConnClose(server, w.id, w.fd) EXCEPT
                            !.workers = (@ \ {w}) \cup {[w EXCEPT !.pc = "closed again"]}]
    /\ UNCHANGED <<connVars, call>>

ClosingNext == ServingNext \/ CloseAgain

Closing == CallsInit /\ [][ClosingNext]_vars

(***************************************************************************)
(* Socket calls under a timeout.  A deadline is set at instant call.set,   *)
(* or a worker writes on the socket as handleConnection has left it, and   *)
(* the calls that follow are issued one after the other, each blocking     *)
(* until the peer lets it proceed or the kernel's timer for that call runs *)
(* out.  call.now is the present instant, call.wait the seconds the        *)
(* present call has been blocked, call.done the calls that have returned.  *)
(***************************************************************************)
MaxOps == 3

\* deadlines other than the zero time: just past, and in the future
DeadlineInputs(now) == {now - 1, now + TickSeconds, now + ReadDeadlineSeconds} \ {0}

SocketCall(fn, branch, t, timeo, now) ==
    [fn |-> fn, branch |-> branch, t |-> t, timeo |-> timeo, set |-> now,
     now |-> now, wait |-> 0, done |-> 0, state |-> "blocked"]

\* conn.SetReadDeadline(t), then the reads of ParseRequest
CallSetReadDeadline ==
    /\ call = NoCall
    /\ \E now \in Instants : \E t \in DeadlineInputs(now) :
          call' = SocketCall("SetReadDeadline", "", t, SetReadDeadline(t, now), now)
    /\ UNCHANGED <<connVars, server>>

\* conn.SetWriteDeadline(t), then writes
CallSetWriteDeadline ==
    /\ call = NoCall
    /\ \E now \in Instants : \E t \in DeadlineInputs(now) :
          call' = SocketCall("SetWriteDeadline", "", t, SetWriteDeadline(t, now), now)
    /\ UNCHANGED <<connVars, server>>

\* the writes of a worker: WriteResponse in the buffered branch, the header
\* write and the copy of the file in the streaming branch; handleConnection
\* sets read deadlines only
CallWorkerWrite ==
    /\ call = NoCall
    /\ \E now \in Instants, branch \in {"buffered", "stream"} :
          call' = SocketCall("Write", branch, 0, NoSendTimeout, now)
    /\ UNCHANGED <<connVars, server>>

InSocketCall == call.fn \in {"SetReadDeadline", "SetWriteDeadline", "Write"}

\* what the blocked call does if the peer lets nothing through
Stalled ==
    IF call.fn = "SetReadDeadline"
    THEN ConnRead(EmptyWire, 0, "open", call.timeo, call.wait)
    ELSE ConnWriteStalled(call.timeo, call.wait)

\* the peer sends bytes (resp. takes some): the blocked call returns, and the
\* caller issues its next one unless it has all it needs
PeerLetsThrough ==
    /\ InSocketCall
    /\ call.state = "blocked"
    /\ call' = [call EXCEPT !.done = @ + 1, !.wait = 0,
                            !.state = IF call.done + 1 = MaxOps THEN "returned"
                                      ELSE "blocked"]
    /\ UNCHANGED <<connVars, server>>

\* the kernel's timer for the blocked call has run out: it returns an error
TimerFires ==
    /\ InSocketCall
    /\ call.state = "blocked"
    /\ Stalled.kind = "error"
    /\ call' = [call EXCEPT !.state = "failed"]
    /\ UNCHANGED <<connVars, server>>

\* time passes with the call blocked
Elapse ==
    /\ InSocketCall
    /\ call.state = "blocked"
    /\ Stalled.kind = "blocked"
    /\ call.now - call.set < MaxWait
    /\ call' = [call EXCEPT !.now = @ + TickSeconds, !.wait = @ + TickSeconds]
    /\ UNCHANGED <<connVars, server>>

SocketNext ==
    \/ CallSetReadDeadline
    \/ CallSetWriteDeadline
    \/ CallWorkerWrite
    \/ PeerLetsThrough
    \/ TimerFires
    \/ Elapse

Socket == CallsInit /\ [][SocketNext]_vars

\* the kernel's timer and the clock are not held back for ever
FairSocket == Socket /\ WF_vars(TimerFires) /\ WF_vars(Elapse)

(***************************************************************************)
(* Properties                                                              *)
(***************************************************************************)
WorkerStep == Start \/ ReadHeaders \/ ReadBody \/ HandleStream \/ HandleBuffered

ExitReasons ==
    {"read error", "request size exceeded limit",
     "request header size exceeded limit", "invalid request format",
     "invalid request line", "stream error", "write error", "close"}

\* where the first header terminator on the wire ends, of either kind
FirstTerminatorEnd(w) ==
    SetMin({q + CRLFCRLF : q \in w.crlf} \cup {q + LFLF : q \in w.lflf})

\* C1: a connection has at most 100 exchanges; once the 100th request has been
\* handled the worker has closed the connection and parses no 101st
C1_AtMostHundredExchanges ==
    /\ requestCount <= maxRequests
    /\ responses <= maxRequests
    /\ requestCount = maxRequests => pc = "closed" /\ ~ENABLED WorkerStep

\* C1: the 100th request was answered in full and the worker then closed
C1_HundredthAnswered ==
    /\ requestCount = maxRequests
    /\ responses = maxRequests
    /\ exchange.id = maxRequests
    /\ exchange.emission.complete
    /\ pc = "closed"

\* C2: handleConnection has ended exactly when the descriptor has been closed,
\* it is closed once, every way of ending is one of the listed ones, and the
\* worker takes no further step on the connection
C2_ClosedExactlyOnce ==
    /\ closeCalls = (IF pc = "closed" THEN 1 ELSE 0)
    /\ pc = "closed" => exit \in ExitReasons /\ ~ENABLED WorkerStep

\* C2: the worker ended on a streaming-handler error and closed the descriptor
C2_ClosedAfterStreamError ==
    /\ pc = "closed"
    /\ exit = "stream error"
    /\ closeCalls = 1

\* C3: a read that returns 0 bytes at end of stream makes ParseRequest return:
\* the worker is never back in a read loop after such a read
C3_EndOfStreamEndsParsing == eofRead => pc \notin ReadPoints

\* C4: a connection waiting for its next request, none of whose bytes has
\* arrived, is never found idle for more than 30 s
C4_IdleConnectionReaped ==
    pc = "readHeaders" /\ allData = 0 /\ wire.arrived = 0
        => idle <= ReadDeadlineSeconds

\* C4, as far as it holds: the same while the peer keeps its end open, the
\* deadline being 30 s at every read
C4_ReapedWhilePeerOpen ==
    pc \in ReadPoints =>
        /\ rcvTimeo = ReadDeadlineSeconds
        /\ peer = "open" => idle <= ReadDeadlineSeconds

\* C5: ParseRequest never returns a request whose header block is longer than
\* 16 384 bytes or whose header block and body are longer than 1 048 576 bytes
C5_OversizeRequestRejected ==
    pc = "parsed" =>
        /\ request.bodyFrom <= MaxHeaderSize + CRLFCRLF
        /\ request.bodyFrom + request.Body.len <= MaxRequestSize

\* C6: a returned request that carries Content-Length: L, L >= 0, has a body of
\* L bytes, which begin where the first header terminator ends
C6_BodyIsFirstLBytes ==
    (/\ pc = "parsed"
     /\ ContentLength \in DOMAIN request.Headers
     /\ Sscanf(request.Headers[ContentLength]) >= 0)
        => /\ request.Body.len = Sscanf(request.Headers[ContentLength])
           /\ request.Body.len > 0 => request.Body.from = FirstTerminatorEnd(wire)

\* C7, as claimed: every parsed request has exactly one response once its pass
\* of the loop is over, and while a request awaits its response no byte beyond
\* its end has been read
C7_OneResponseAndNoReadAhead ==
    /\ pc # "parsed" => responses = requestCount
    /\ pc = "parsed" => allData <= request.bodyFrom + request.Body.len

\* C7, amended: responses follow the order of the requests, a parsed request
\* has at most one; the worker reads again only when every parsed request has
\* its response, and a request is left without one only when the write or
\* the streaming handler reported an error, the connection then being closed
C7_SequentialExchanges ==
    /\ responses <= requestCount
    /\ requestCount <= responses + 1
    /\ exchange.id # 0 => exchange.id = requestCount
    /\ pc \in ReadPoints \cup {"parsed"} => responses = requestCount
    /\ responses < requestCount =>
          pc = "closed" /\ exchange.emission.err /\ ~exchange.emission.wrote

\* C7: the first request was answered, the second was parsed and its write
\* failed: it has no response and the connection is closed
C7_SecondLeftUnanswered ==
    /\ requestCount = 2
    /\ responses = 1
    /\ exchange.id = 2
    /\ pc = "closed"

\* the keep-alive flag of an exchange as C8 describes it: count is the number
\* of requests parsed, the current one included
ClaimedKeepAlive(v, headers, count) ==
    IF v = HTTP10 THEN FALSE
    ELSE IF count >= maxRequests THEN FALSE
    ELSE ~\E n \in DOMAIN headers :
            /\ ToLower(n) = ToLower(Connection)
            /\ ToLower(headers[n]) = close

\* C8: the flag a pass of the loop acts on is false for HTTP/1.0 and once 100
\* requests are parsed, else true unless the request carries a Connection
\* header whose value is "close" in any casing
C8_KeepAliveDecision ==
    [][pc = "parsed" /\ pc' # "parsed" =>
          exchange'.keepAlive =
              ClaimedKeepAlive(version, request.Headers, requestCount')]_vars

\* C8, as far as it holds: the same for requests whose header names are
\* spelled as the code spells them
C8_ForExactHeaderNames ==
    [][(/\ pc = "parsed"
        /\ pc' # "parsed"
        /\ \A n \in DOMAIN request.Headers : n \in {Connection, ContentLength}) =>
          exchange'.keepAlive =
              ClaimedKeepAlive(version, request.Headers, requestCount')]_vars

\* C9: a response written in full carries Connection: keep-alive with
\* Keep-Alive: timeout=30, max=100-count exactly when the worker goes on to
\* parse another request, and Connection: close exactly when it closes
C9_ConnectionHeaderMatchesFate ==
    exchange.id # 0 /\ exchange.emission.complete =>
        /\ exchange.emission.headers
              = ConnectionHeaders(TRUE, maxRequests - exchange.id)
           <=> pc = "readHeaders"
        /\ exchange.emission.headers.Connection = "close" <=> pc = "closed"

\* C9, as far as it holds: the same for every status but 416
C9_ExceptRangeNotSatisfiable ==
    exchange.id # 0 /\ exchange.emission.complete /\ exchange.emission.status # 416 =>
        /\ exchange.emission.headers
              = ConnectionHeaders(TRUE, maxRequests - exchange.id)
           <=> pc = "readHeaders"
        /\ exchange.emission.headers.Connection = "close" <=> pc = "closed"

SemanticErrors == {403, 404, 416, 500}

\* C10: after an error response written in full on a pass whose keep-alive
\* flag was true, the worker has set the read deadline again and is parsing
\* the next request
C10_ErrorResponseKeepsConnection ==
    (/\ exchange.id # 0
     /\ exchange.emission.status \in SemanticErrors
     /\ exchange.emission.complete
     /\ exchange.keepAlive)
        => pc = "readHeaders" /\ rcvTimeo = ReadDeadlineSeconds /\ idle = 0

\* C10, as far as it holds: the same for 403, 404 and 500
C10_ExceptRangeNotSatisfiable ==
    (/\ exchange.id # 0
     /\ exchange.emission.status \in SemanticErrors \ {416}
     /\ exchange.emission.complete
     /\ exchange.keepAlive)
        => pc = "readHeaders" /\ rcvTimeo = ReadDeadlineSeconds /\ idle = 0

\* the header field Content-Length
HasContentLength(em) == "Content-Length" \in DOMAIN em.fields

\* C11: every response written carries Content-Length, whether it comes from
\* the buffered branch, from a small file with or without gzip, from a large
\* file as a 200 or a 206, or from the file server's error emitter
C11_ContentLengthAlways ==
    exchange.id # 0 /\ exchange.emission.wrote /\ exchange.emission.status \notin {304, 416}
        => HasContentLength(exchange.emission)

\* C11, as far as it holds: the same for every response but the 200 of a small
\* file that CompressResponse left uncompressed
C11_ExceptUncompressedSmallFile ==
    (/\ exchange.id # 0
     /\ exchange.emission.wrote
     /\ exchange.emission.status \notin {304, 416}
     /\ ~(/\ exchange.emission.status = 200
          /\ exchange.emission.file # NoPath
          /\ exchange.emission.body.len <= MaxInMemorySize
          /\ exchange.emission.body.enc # "gzip"))
        => HasContentLength(exchange.emission)

\* a path that names the root directory or something below it
UnderRoot(p) ==
    LET r == Join(root, NoPath).segs
    IN  /\ ~p.rooted
        /\ Len(p.segs) >= Len(r)
        /\ SubSeq(p.segs, 1, Len(r)) = r
        /\ \A i \in 1..Len(p.segs) : p.segs[i] # ".."

\* C12: whatever the request path (".", "..", repeated slashes, a query
\* string), the file ServeFileStream stats, reads or streams lies inside the
\* root directory
C12_ServedFileInsideRoot ==
    call.fn = "ServeFileStream" /\ call.out.file # NoPath => UnderRoot(call.out.file)

\* a path that climbs two levels from /static/ is answered with a file of the root
C12_ClimbingPathServed ==
    /\ call.fn = "ServeFileStream"
    /\ call.req.Path = <<"static", "..", "..", "f">>
    /\ call.out.status = 200
    /\ call.out.file = [rooted |-> FALSE, segs |-> <<"public", "f">>]

\* C13: GET /static/../etc/passwd is answered 403 with the body
\* "403 - Forbidden": a path with a ".." component that climbs out of /static/
\* is refused, not resolved to another path
C13_TraversalForbidden ==
    (/\ call.fn = "ServeFileStream"
     /\ call.req.Path = PathTraversal
     /\ call.out.wrote)
        => /\ call.out.status = 403
           /\ call.out.body = TextBody(<<"4","0","3"," ","-"," ","F","o","r","b","i","d","d","e","n">>)
           /\ call.out.file = NoPath

\* C13, what happens instead: the path is resolved to etc/passwd under the
\* root, which is looked up like any other file
C13_TraversalResolved ==
    call.fn = "ServeFileStream" /\ call.req.Path = PathTraversal
        => \E p \in {<<"public", "etc", "passwd">>,
                       <<"public", "etc", "passwd", "index.html">>} :
               call.out.file = [rooted |-> FALSE, segs |-> p]

\* a call of ServeFileStream for /static/f without Range, f an existing file
\* (or a directory with an index) that can be read
ConditionalCall ==
    /\ call.fn = "ServeFileStream"
    /\ call.req.Path = PathStatic
    /\ call.range.kind = "absent"
    /\ call.f.stat = "ok" /\ (call.f.isDir => call.f.index)
    /\ call.f.readOK /\ call.f.openOK
    /\ call.w = "full" /\ call.c = "ok"

\* C14: with If-Modified-Since naming the instant H in one of the three
\* layouts, the answer is 304 without body exactly when the file's time cut to
\* the second is not after H; in every other case, and when the header is
\* absent or cannot be parsed, the file is served
C14_NotModifiedIffNotAfter ==
    ConditionalCall =>
        LET notModified == call.out.status = 304 /\ call.out.body = NoBody
            served == /\ call.out.status = 200
                      /\ call.out.body = FileBody(call.f, 0, call.f.size)
        IN  /\ call.since.kind = "date"
                => (notModified <=> call.f.modTime.sec <= call.since.t.sec)
            /\ call.since.kind # "date" => served
            /\ notModified \/ served

\* a file changed half a second after the instant an RFC 850 date names is
\* answered 304
C14_SameSecondNotModified ==
    /\ ConditionalCall
    /\ call.since.kind = "date"
    /\ call.since.text = FormatRFC850(Truncate(ModTime), GMT)
    /\ call.f.modTime = ModTime
    /\ call.f.modTime.nsec > 0
    /\ call.out.status = 304
    /\ call.out.complete

\* the exchange that follows the one a browser kept a Last-Modified from, for
\* the same file, its request carrying that value as If-Modified-Since
Revalidation ==
    /\ client.kind = "browser"
    /\ client.cached.id # 0
    /\ exchange.id = client.cached.id + 1
    /\ exchange.since = client.cached.lastModified
    /\ exchange.emission.file = client.cached.file

\* C15: on one HTTP/1.1 connection a 200 for a static file, written in full
\* with Last-Modified, leaves the worker parsing the next request; and when
\* that request asks for the same, unchanged file with If-Modified-Since equal
\* to that Last-Modified, the answer is a 304 without body
C15_SecondRequestNotModified ==
    /\ (/\ client.kind = "browser"
        /\ exchange.id # 0
        /\ exchange.id = client.cached.id
        /\ exchange.keepAlive)
           => pc = "readHeaders" /\ exit = ""
    /\ (/\ Revalidation
        /\ exchange.emission.wrote
        /\ exchange.emission.status \notin {403, 404, 500})
           => /\ exchange.emission.status = 304
              /\ exchange.emission.body = NoBody
              /\ responses >= 2

\* the second request of a connection answered 304 in full after the 200 of
\* the first, for public/static/f
C15_NotModifiedAfterOK ==
    /\ Revalidation
    /\ exchange.id = 2
    /\ version = HTTP11
    /\ exchange.emission.file = [rooted |-> FALSE, segs |-> <<"public", "static", "f">>]
    /\ exchange.emission.status = 304
    /\ exchange.emission.complete
    /\ responses = 2
    /\ pc = "readHeaders"

\* a call of ServeFileStream for /static/f with Range: bytes=S-E or bytes=S-
\* (E the last offset), 0 <= S <= E < size, on a file that exists and can be
\* opened, read and positioned, both writes succeeding
SatisfiableRangeCall ==
    /\ call.fn = "ServeFileStream"
    /\ call.range.kind \in {"closed", "open"}
    /\ 0 <= call.range.start
    /\ call.range.start <= call.range.end
    /\ call.range.end < call.f.size
    /\ call.f.stat = "ok" /\ ~call.f.isDir
    /\ call.f.readOK /\ call.f.openOK /\ call.f.seekOK
    /\ call.w = "full" /\ call.c = "ok"

\* what C16 expects of the response to a satisfiable range
PartialContent ==
    /\ call.out.status = 206
    /\ Get(call.out.fields, "Content-Length")
          = Itoa(call.range.end - call.range.start + 1)
    /\ Get(call.out.fields, "Content-Range")
          = bytes \o <<" ">> \o Itoa(call.range.start) \o <<"-">> \o Itoa(call.range.end)
                  \o <<"/">> \o Itoa(call.f.size)
    /\ call.out.body = FileBody(call.f, call.range.start,
                                call.range.end - call.range.start + 1)
    /\ call.out.complete

\* C16: a request with Range: bytes=S-E (or bytes=S-, E = N-1) for a file of
\* size N, 0 <= S <= E < N, is answered 206 with Content-Length E-S+1 and
\* Content-Range: bytes S-E/N, followed by exactly the bytes S..E of the file
C16_RangeServed ==
    SatisfiableRangeCall => PartialContent

\* C16 for files larger than MaxInMemorySize
C16_RangeServedOfLargeFile ==
    SatisfiableRangeCall /\ call.f.size > MaxInMemorySize => PartialContent

\* bytes=1-99 of a 10 MiB file answered 206 with 99 bytes
C16_NinetyNineBytes ==
    /\ SatisfiableRangeCall
    /\ call.f = LargeFile
    /\ call.range.kind = "closed" /\ call.range.start = 1 /\ call.range.end = 99
    /\ call.out.status = 206
    /\ call.out.fields["Content-Length"] = <<"9","9">>
    /\ call.out.fields["Content-Range"]
          = <<"b","y","t","e","s"," ","1","-","9","9","/","1","0","4","8","5","7","6","0">>
    /\ call.out.body.from = 1 /\ call.out.body.len = 99
    /\ call.out.complete

\* a call of ServeFileStream on the large-file branch with a Range value that
\* is not bytes=S-E or bytes=S- with 0 <= S <= E < size; the file can be opened
\* and the header block is written
UnsatisfiableRangeCall ==
    /\ call.fn = "ServeFileStream"
    /\ call.range.kind # "absent"
    /\ \/ call.range.kind \in {"suffix", "multi", "unit", "malformed"}
       \/ call.range.start < 0
       \/ call.range.end >= call.f.size
       \/ call.range.start > call.range.end
    /\ call.f.size > MaxInMemorySize
    /\ call.f.stat = "ok" /\ ~call.f.isDir /\ call.f.openOK
    /\ call.out.wrote

C17_EndAtSizeRefused ==
    /\ UnsatisfiableRangeCall
    /\ call.range.kind = "closed"
    /\ call.range.start = 0 /\ call.range.end = call.f.size
    /\ call.out.status = 416

\* a call of CompressResponse that returned a response with
\* Content-Encoding: gzip
LeftGzipped ==
    /\ call.fn = "CompressResponse"
    /\ Get(call.out.Headers, "Content-Encoding") = gzip

\* what C18 expects of such a response: its body is a gzip stream that decodes
\* to the body the call received, and Content-Length is the length of the
\* body it returns
EncodesReceivedBody ==
    /\ call.out.Body.enc # "identity"
    /\ Decoded(call.out.Body) = call.in.Body
    /\ Get(call.out.Headers, "Content-Length") = Itoa(Size(call.out.Body))

\* C18: a response CompressResponse leaves with Content-Encoding: gzip has as
\* body the gzip encoding of the body it received, and a Content-Length equal
\* to the length of the new body
C18_GzipDecodesToOriginal ==
    LeftGzipped => EncodesReceivedBody

\* C18 for responses that arrive without Content-Encoding
C18_GzipDecodesToOriginalWhenSet ==
    LeftGzipped /\ Get(call.in.Headers, "Content-Encoding") = <<>>
        => EncodesReceivedBody

\* a 2048-byte body returned as the 700 bytes of its gzip encoding
C18_Compressed ==
    /\ LeftGzipped
    /\ call.applications = 1
    /\ Get(call.in.Headers, "Content-Encoding") = <<>>
    /\ Size(call.in.Body) = 2048
    /\ Size(call.out.Body) = 700
    /\ call.out.Headers["Content-Length"] = <<"7","0","0">>
    /\ Decoded(call.out.Body) = call.in.Body

\* C19: CompressResponse applied to the response it returned, with the same
\* request, returns that response again, body and headers unchanged, whether
\* the first application compressed the body or not
C19_CompressIdempotent ==
    call.fn = "CompressResponse" /\ call.applications = 2
        => /\ call.out.Body = call.once.Body
           /\ call.out.Headers = call.once.Headers

\* the second application on a response the first one compressed, whose
\* body could be shrunk once more
C19_TwiceOnShrinkable ==
    /\ call.fn = "CompressResponse"
    /\ call.applications = 2
    /\ call.once.Body.enc = "gzip"
    /\ Size(call.once.Body) >= minSizeForCompression
    /\ call.once.Body.gzgz < call.once.Body.gz
    /\ call.out = call.once

\* the second application on a response the first one left uncompressed
C19_TwiceOnUncompressed ==
    /\ call.fn = "CompressResponse"
    /\ call.applications = 2
    /\ call.once.Body.enc = "identity"
    /\ Size(call.once.Body) > 0
    /\ "Vary" \in DOMAIN call.once.Headers
    /\ call.out = call.once

\* a first application of CompressResponse
CompressCall == call.fn = "CompressResponse" /\ call.applications = 1

\* the body was replaced by its gzip encoding and Content-Encoding: gzip set
Compressed ==
    /\ call.out.Body = compressContent(call.in.Body)
    /\ Get(call.out.Headers, "Content-Encoding") = gzip

\* the conditions of C20 other than the one on the Content-Type
OtherConditions ==
    /\ Size(call.in.Body) > 0
    /\ "Content-Encoding" \notin DOMAIN call.in.Headers
    /\ "gzip" \in call.accept.codings
    /\ Size(call.in.Body) >= 1024
    /\ Size(compressContent(call.in.Body)) < Size(call.in.Body)

C20_NotShorterLeftAlone ==
    /\ CompressCall
    /\ ~Compressed
    /\ call.in.Body.len = 1024 /\ call.in.Body.gz = 1024
    /\ "gzip" \in call.accept.codings
    /\ call.type.primary \in compressibleTypes
    /\ "Content-Encoding" \notin DOMAIN call.in.Headers
    /\ call.out.Body = call.in.Body

\* an application of CompressResponse that did not replace the body by its
\* gzip encoding
NotCompressedCall ==
    /\ call.fn = "CompressResponse"
    /\ ~(/\ call.out.Body = compressContent(call.in.Body)
         /\ "Content-Encoding" \notin DOMAIN call.in.Headers)

\* Vary is due: the body is not empty, no Content-Encoding came with the
\* response and the content type (text/plain for a response without
\* Content-Type) is compressible
VaryDue ==
    /\ Size(call.in.Body) > 0
    /\ "Content-Encoding" \notin DOMAIN call.in.Headers
    /\ (IF call.type.text = <<>> THEN TextPlain ELSE call.type.primary)
          \in compressibleTypes

C21_ImageUntouched ==
    /\ NotCompressedCall
    /\ call.applications = 1
    /\ call.type.text = ImageType
    /\ "gzip" \in call.accept.codings
    /\ call.in.Body.len = 2048
    /\ "Content-Encoding" \notin DOMAIN call.in.Headers
    /\ call.out = call.in

\* the response of the router when no handler is registered under the key
PageNotFound ==
    [NewResponse(404, NotFound, TextBody(PageNotFoundText)) EXCEPT
        !.Headers = Put(@, "Content-Type", TextPlain)]

\* C22: a request goes to the streaming handler exactly when its method is GET
\* or HEAD and its path starts with /static/; any other request is looked up
\* under METHOD:PATH, a hit giving the registered handler's response and a
\* miss the 404 "404 - Page Not Found" with Content-Type: text/plain
C22_DispatchByMethodAndPath ==
    call.fn = "Dispatch" =>
        LET req == call.req
            key == <<req.Method, req.Path>>
        IN  /\ call.handler = "HandleStream"
                  <=> (req.Method \in {"GET", "HEAD"} /\ call.static)
            /\ call.handler = "Handle" =>
                  /\ key \notin Routes => call.out = PageNotFound
                  /\ key = <<"GET", <<"">>>> => call.out = handleHome(req, call.a)
                  /\ key = <<"GET", <<"hello">>>> => call.out = handleHello(req)
                  /\ key = <<"POST", <<"echo">>>> => call.out = handleEcho(req, call.a)
                  /\ key = <<"GET", <<"api", "users">>>> => call.out = handleGetUsers(req)
                  /\ key = <<"GET", <<"version">>>> => call.out = handleVersion(req, call.a)
                  /\ key = <<"GET", <<"favicon.ico">>>> => call.out = handleFavicon(req, call.a)

\* HEAD /static/f is streamed
C22_HeadStaticStreamed ==
    /\ call.fn = "Dispatch"
    /\ call.req.Method = "HEAD"
    /\ call.req.Path = PathStatic
    /\ call.handler = "HandleStream"
    /\ call.out.wrote

\* HEAD /hello, registered for GET only, is a miss
C22_HeadHelloNotFound ==
    /\ call.fn = "Dispatch"
    /\ call.req.Method = "HEAD"
    /\ call.req.Path = PathHello
    /\ call.handler = "Handle"
    /\ call.out.StatusCode = 404
    /\ call.out.Body.text = PageNotFoundText
    /\ Get(call.out.Headers, "Content-Type") = TextPlain

\* C23: every connection the accept loop got from a successful Accept has
\* exactly one worker; every read, write and close on its descriptor was made
\* by that worker and none by the accept loop; and no accept error has ended
\* the loop
C23_OneWorkerPerConnection ==
    /\ server.running
    /\ \A c \in server.handed :
          Cardinality({w \in server.workers : w.conn = c}) = 1
    /\ \A e \in server.log :
          e.conn \in server.handed =>
              /\ e.actor # AcceptLoop
              /\ \E w \in server.workers : w.id = e.actor /\ w.conn = e.conn

\* after Accept has failed, once on accept(2) and once closing a descriptor
\* it had got, the loop has accepted a connection whose descriptor an earlier
\* connection's worker had closed, and the new worker has read from it and
\* written to it
C23_DescriptorReusedAfterFailure ==
    /\ {"accept", "getsockname"} \subseteq server.failed
    /\ \E w1, w2 \in server.workers :
          /\ w1.conn # w2.conn
          /\ w1.fd = w2.fd
          /\ w1.pc = "done"
          /\ {[actor |-> w2.id, op |-> op, conn |-> w2.conn] : op \in {"read", "write"}}
                \subseteq server.log
          /\ [actor |-> w1.id, op |-> "close", conn |-> w1.conn] \in server.log

\* a read (resp. write) issued after SetReadDeadline (resp. SetWriteDeadline)
\* is blocked
BlockedUnderDeadline ==
    /\ call.fn \in {"SetReadDeadline", "SetWriteDeadline"}
    /\ call.state = "blocked"

\* C24: after SetReadDeadline(t) (resp. SetWriteDeadline(t)) with t not the
\* zero time, no read (resp. write) is blocked at an instant later than t,
\* whichever read of the request it is and also when t was already past
C24_NoCallBlockedBeyondDeadline ==
    BlockedUnderDeadline => call.now <= call.t

\* what the code gives: a call is not blocked for longer than the timeout
\* installed, when one is installed, and the first call after a deadline that
\* was still to come is not blocked beyond it
C24_EachCallBoundedByTimeout ==
    BlockedUnderDeadline =>
        /\ call.timeo > 0 => call.wait <= call.timeo
        /\ (call.done = 0 /\ call.t >= call.set) => call.now <= call.t

\* the second read after a deadline 30 s ahead is still blocked 45 s after
\* the deadline was set
C24_SecondReadBeyondDeadline ==
    /\ call.fn = "SetReadDeadline"
    /\ call.state = "blocked"
    /\ call.t = call.set + ReadDeadlineSeconds
    /\ call.done = 1
    /\ call.now > call.t

\* a read after a deadline that was already past is blocked with no timeout
C24_PastDeadlineNeverExpires ==
    /\ call.fn = "SetReadDeadline"
    /\ call.state = "blocked"
    /\ call.t < call.set
    /\ call.timeo = 0
    /\ call.wait = MaxWait

\* the request header names the server looks up, and a header map with every
\* name that is one of them in some casing spelled as the code spells it
LookedUpNames == {Connection, ContentLength, IfModifiedSince, Range, AcceptEncoding}
CanonicalName(n) ==
    IF \E c \in LookedUpNames : ToLower(c) = ToLower(n)
    THEN CHOOSE c \in LookedUpNames : ToLower(c) = ToLower(n)
    ELSE n
Canonical(headers) ==
    [c \in {CanonicalName(n) : n \in DOMAIN headers} |->
        headers[CHOOSE n \in DOMAIN headers : CanonicalName(n) = c]]

\* C25: a request is treated as the same request with its header names in
\* the canonical casing is: the pass that handles it acts on the keep-alive
\* flag the canonical spelling gives
C25_HeaderNamesCaseInsensitive ==
    [][pc = "parsed" /\ pc' # "parsed" =>
          exchange'.keepAlive =
              ShouldKeepAlive(KeepAlive(version, Canonical(request.Headers)),
                              requestCount')]_vars

\* C26: when the one write of WriteResponse has put fewer bytes on the
\* connection than the serialised response holds, WriteResponse returns an
\* error and the worker ends the connection
C26_ShortWriteIsError ==
    [][(/\ pc = "parsed"
        /\ ~NeedsStreaming(request)
        /\ pc' # "parsed"
        /\ exchange'.emission.wrote
        /\ ~exchange'.emission.complete) =>
          /\ exchange'.emission.err
          /\ pc' = "closed"
          /\ exit' = "write error"]_vars

\* what the code gives: the worker ends the connection with a write error
\* exactly when the write call itself returned an error
C26_ErrorIffWriteFailed ==
    [][(/\ pc = "parsed"
        /\ ~NeedsStreaming(request)
        /\ pc' # "parsed") =>
          /\ exchange'.emission.err <=> ~exchange'.emission.wrote
          /\ exit' = "write error" <=> exchange'.emission.err]_vars

\* C27: a write of a worker, in the buffered branch or while a file is
\* streamed, that is blocked because the peer takes nothing does not stay
\* blocked: unless the peer lets it through after all, it returns an error
C27_BlockedWriteFails ==
    \A d \in 0..MaxOps :
        (call.fn = "Write" /\ call.state = "blocked" /\ call.done = d)
            ~> (call.fn = "Write" /\ (call.state = "failed" \/ call.done > d))

\* a worker's write has been blocked for 45 s on a socket without send timeout
C27_WriteBlockedWithoutTimeout ==
    /\ call.fn = "Write"
    /\ call.branch = "stream"
    /\ call.state = "blocked"
    /\ call.timeo = 0
    /\ call.wait = MaxWait

\* C28: the bytes ParseRequest has accumulated for the request it is
\* collecting, header section and body together, never exceed
\* MAX_REQUEST_SIZE plus one read of 4096 bytes, whatever Content-Length was
\* announced
C28_AccumulatedBounded ==
    pc \in ReadPoints \cup {"parsed"} => allData <= MaxRequestSize + ReadBufSize

\* what the code gives: the bound holds while the header section is being
\* collected, and for a body announced by Content-Length the bytes taken stay
\* below header section, announced length and one read together
C28_BoundedByAnnouncedLength ==
    /\ pc = "readHeaders" => allData <= MaxRequestSize + ReadBufSize
    /\ pc = "readBody" => allData < request.bodyFrom + request.expectedLength
    /\ pc = "parsed" /\ request.expectedLength > 0 =>
          allData < request.bodyFrom + request.expectedLength + ReadBufSize

\* the bytes in the accumulator after the read ParseRequest is about to make
AfterRead == allData + ConnRead(wire, allData, peer, rcvTimeo, idle).n

HeaderSizeError == "request header size exceeded limit"

\* C29: ParseRequest fails with the header-size error only when the
\* accumulator holds more than 16 384 bytes and no header terminator, neither
\* CRLF CRLF nor LF LF
C29_HeaderSizeErrorOnlyWithoutTerminator ==
    [][(pc = "readHeaders" /\ exit' = HeaderSizeError) =>
          /\ AfterRead > MaxHeaderSize
          /\ ~Contains(wire.crlf, CRLFCRLF, AfterRead)
          /\ ~Contains(wire.lflf, LFLF, AfterRead)]_vars

\* what the code gives: the header-size error is returned exactly when the
\* accumulator holds more than 16 384 and at most 1 048 576 bytes and no
\* CRLF CRLF, an LF LF counting for nothing
C29_HeaderSizeErrorWithoutCRLF ==
    [][(pc = "readHeaders" /\ pc' # "readHeaders"
        /\ ConnRead(wire, allData, peer, rcvTimeo, idle).kind = "data") =>
          (exit' = HeaderSizeError
             <=> /\ AfterRead > MaxHeaderSize
                 /\ AfterRead <= MaxRequestSize
                 /\ ~Contains(wire.crlf, CRLFCRLF, AfterRead))]_vars

\* where the body begins if the accumulator of n bytes is split at the header
\* terminator that starts first in it, of either kind
BodyAfterFirstTerminator(w, n) ==
    LET ends == {[start |-> q, end |-> q + CRLFCRLF] : q \in {x \in w.crlf : x + CRLFCRLF <= n}}
                \cup {[start |-> q, end |-> q + LFLF] : q \in {x \in w.lflf : x + LFLF <= n}}
        first == CHOOSE e \in ends : \A o \in ends : e.start <= o.start
    IN  first.end

\* ParseRequest has found the end of the header section with this step
SplitsNow == pc = "readHeaders" /\ pc' \in {"readBody", "parsed"}

\* C30: ParseRequest splits the accumulator at the first header terminator in
\* it, be it CRLF CRLF or LF LF: the body section begins right after that one,
\* also when terminators of both kinds have been read
C30_SplitAtFirstTerminator ==
    [][SplitsNow => request'.bodyFrom = BodyAfterFirstTerminator(wire, allData')]_vars

\* what the code gives: the same as long as no LF LF comes before the first
\* CRLF CRLF of the accumulator
C30_SplitAtFirstCRLF ==
    [][(/\ SplitsNow
        /\ \A q \in wire.crlf, r \in wire.lflf :
              q + CRLFCRLF <= allData' /\ r + LFLF <= allData' => q < r) =>
          request'.bodyFrom = BodyAfterFirstTerminator(wire, allData')]_vars

\* the header lines of the call's text that have a colon
ColonLines == {i \in 1..Len(call.text.headerLines) : call.text.headerLines[i].colon}

\* C31: a first line that is not three whitespace-separated fields makes
\* ParseRequest return an error; a header line without a colon is passed
\* over: parsing goes on and the header map has no entry for it
C31_MalformedLineRejected ==
    call.fn = "ParseRequest" =>
        /\ call.text.line.fields # 3 => call.out.pc = "closed"
        /\ call.text.line.fields = 3 =>
              /\ call.out.pc # "closed"
              /\ DOMAIN call.out.request.Headers
                    = {call.text.headerLines[i].name : i \in ColonLines}

\* what the code gives: an error for fewer than three fields, and the first
\* three fields of a longer line taken as method, path and version
C31_FewerThanThreeRejected ==
    call.fn = "ParseRequest" =>
        /\ call.text.line.fields < 3 <=> call.out.pc = "closed"
        /\ call.out.pc = "closed" => call.out.exit = "invalid request line"
        /\ call.out.pc # "closed" =>
              /\ call.out.request.Method = call.text.line.Method
              /\ call.out.request.Version = call.text.line.Version
              /\ DOMAIN call.out.request.Headers
                    = {call.text.headerLines[i].name : i \in ColonLines}

\* in the worker: a failed ParseRequest ends the connection with nothing
\* written for that request
C31_ParseErrorWritesNothing ==
    exit = "invalid request line" =>
        pc = "closed" /\ closeCalls = 1 /\ responses = requestCount

\* a first line of four fields is parsed
C31_FourFieldsAccepted ==
    /\ call.fn = "ParseRequest"
    /\ call.text.line.fields = 4
    /\ call.out.pc = "parsed"

\* the calls of the close primitive made through the Connection of worker w
ClosesThrough(w) == {e \in server.log : e.actor = w.id /\ e.op = "close"}

\* C32: however often Close is called on a Connection, the close primitive
\* is invoked once on its descriptor, and no Close closes a descriptor that
\* meanwhile belongs to another connection
C32_CloseIdempotent ==
    \A w \in server.workers :
        /\ Cardinality(ClosesThrough(w)) <= 1
        /\ \A e \in ClosesThrough(w) : e.conn = w.conn

\* a second Close on a Connection has closed the descriptor of a later
\* connection, whose worker is still running
C32_ClosedAnotherConnection ==
    \E w1, w2 \in server.workers :
        /\ w1.pc = "closed again"
        /\ w2.pc = "running"
        /\ w2.fd = w1.fd
        /\ [actor |-> w1.id, op |-> "close", conn |-> w2.conn] \in server.log
        /\ w2.fd \notin DOMAIN server.fds

\* a request dispatched to the buffered branch, with the response Handle gave
BufferedCall == call.fn = "Dispatch" /\ call.handler = "Handle"

\* C33: the response WriteResponse is given on the buffered branch has passed
\* through CompressResponse, whichever handler made it and also when it is
\* the router's 404: passing it through once more changes nothing
C33_MiddlewareAppliedToAll ==
    BufferedCall => CompressResponse(call.out, call.req) = call.out

\* what the code gives: the same for the responses of the handlers that call
\* CompressResponse themselves, handleHome without its template included
C33_MiddlewareAppliedByHandlers ==
    (/\ BufferedCall
     /\ <<call.req.Method, call.req.Path>> \in Routes
     /\ call.req.Path # <<"favicon.ico">>
     /\ call.out.StatusCode = 200) =>
        CompressResponse(call.out, call.req) = call.out

\* the router's 404 goes out without the Vary header the middleware gives a
\* text/plain body
C33_NotFoundWithoutVary ==
    /\ BufferedCall
    /\ call.out.StatusCode = 404
    /\ call.out.Body.text = PageNotFoundText
    /\ "Vary" \notin DOMAIN call.out.Headers
    /\ Get(CompressResponse(call.out, call.req).Headers, "Vary") = AcceptEncoding

\* a HEAD request served by the file server, and what the file server writes
\* for the same request made with GET
HeadCall == call.fn = "ServeFileStream HEAD"
AsGet == ServeFileStream([call.req EXCEPT !.Method = "GET"], call.f, TRUE,
                         maxRequests - 1, call.w, call.c)

\* C34: a HEAD request for a path under /static/ gets the status line and the
\* headers of the same request made with GET, and no body byte after them
C34_HeadWithoutBody ==
    (HeadCall /\ call.out.wrote) =>
        /\ call.out.status = AsGet.status
        /\ call.out.headers = AsGet.headers
        /\ call.out.fields = AsGet.fields
        /\ Size(call.out.body) = 0

\* what the code gives: everything the GET is given, the body included
C34_HeadServedAsGet ==
    HeadCall => call.out = AsGet

\* HEAD for a file of 2048 bytes: a 200 written in full with the 2048 bytes
C34_HeadWithWholeFile ==
    /\ HeadCall
    /\ call.f = PlainFile
    /\ call.out.complete
    /\ call.out.status = 200
    /\ Size(call.out.body) = PlainFile.size

\* a call of ServeFileStream on a file around the in-memory limit whose
\* response was begun
SizedCall == call.fn = "ServeFileStream sized" /\ call.out.wrote

\* the body of a file-server error: "<code> - <message>"
ErrorText(code, message) == Itoa(code) \o <<" ", "-", " ">> \o message

\* the response carries the gzip encoding of the file
SentGzipped ==
    /\ call.out.body.enc = "gzip"
    /\ Get(call.out.fields, "Content-Encoding") = gzip

\* C35: a file of at most 1 048 576 bytes is read whole (a file that cannot
\* be read gives the 500 of the read) and goes through the compression
\* middleware, which encodes it when gzip is accepted, the type compressible
\* and the encoding shorter; a larger file is opened and copied (a file that
\* cannot be opened gives the 500 of the open) and is never encoded, whatever
\* its type and the Accept-Encoding
C35_ModeBySizeOnly ==
    SizedCall =>
        IF call.f.size <= 1048576
        THEN /\ call.out.status = 500 <=> ~call.f.readOK
             /\ call.out.status = 500 => call.out.body.text = ErrorText(500, ErrorReadingFile)
             /\ call.out.complete <=> call.w = "full"
             /\ call.f.readOK =>
                   /\ call.out.status = 200
                   /\ SentGzipped <=> /\ call.gzipAccepted
                                      /\ call.f.contentType = TextType
                                      /\ call.f.size >= minSizeForCompression
                                      /\ call.f.gz < call.f.size
                   /\ ~SentGzipped => /\ call.out.body.enc = "identity"
                                      /\ Size(call.out.body) = call.f.size
        ELSE /\ call.out.status = 500 <=> ~call.f.openOK
             /\ call.out.status = 500 => call.out.body.text = ErrorText(500, ErrorOpeningFile)
             /\ call.f.openOK =>
                   /\ call.out.status = 200
                   /\ call.out.complete <=> (call.w = "full" /\ call.c = "ok")
                   /\ "Content-Encoding" \notin DOMAIN call.out.fields
                   /\ call.out.body.enc = "identity"
                   /\ Size(call.out.body) = call.f.size

\* a text file of exactly 1 048 576 bytes is sent gzipped, in one write
C35_BoundaryFileCompressed ==
    /\ SizedCall
    /\ call.f.size = MaxInMemorySize
    /\ call.f.contentType = TextType
    /\ call.gzipAccepted
    /\ SentGzipped
    /\ call.out.complete
    /\ call.c = "error"

\* a text file one byte larger, asked for with gzip, is copied unencoded
C35_LargerFileStreamed ==
    /\ SizedCall
    /\ call.f.size = MaxInMemorySize + 1
    /\ call.f.contentType = TextType
    /\ call.gzipAccepted
    /\ ~call.f.readOK
    /\ call.out.complete
    /\ call.out.body.enc = "identity"
    /\ Size(call.out.body) = call.f.size

\* the Content-Length of emission em, where it has one, is the number of body
\* bytes written after its header block
LengthMatchesBody(em) ==
    (em.complete /\ "Content-Length" \in DOMAIN em.fields) =>
        em.fields["Content-Length"] = Itoa(Size(em.body))

\* C36: a response that carries Content-Length carries the number of body
\* bytes written after the header block, on the buffered branch (after any
\* compression) and on every path of the file server
C36_ContentLengthIsBodyLength ==
    exchange.id # 0 => LengthMatchesBody(exchange.emission)

\* the same for the calls of the file server on ranges, conditions, sizes and
\* paths that one connection's peer does not send
C36_ContentLengthOfCalls ==
    call.fn \in {"ServeFileStream", "ServeFileStream HEAD", "ServeFileStream sized"}
        => LengthMatchesBody(call.out)

\* a response sent gzipped carries the length of the encoding, not of the content
C36_CompressedLength ==
    /\ exchange.id # 0
    /\ exchange.emission.complete
    /\ exchange.emission.body.enc = "gzip"
    /\ exchange.emission.fields["Content-Length"] = Itoa(exchange.emission.body.gz)
    /\ exchange.emission.body.gz < exchange.emission.body.len

\* a file-server error carries the length of its text
C36_ErrorTextLength ==
    /\ exchange.id # 0
    /\ exchange.emission.complete
    /\ exchange.emission.status = 404
    /\ exchange.emission.file # NoPath
    /\ exchange.emission.fields["Content-Length"] = <<"1", "5">>

\* a whole large file and a range of one carry the file size and the length
\* of the range
C36_StreamedLengths ==
    /\ call.fn = "ServeFileStream"
    /\ call.out.complete
    /\ call.out.status = 206
    /\ call.range.start = 1
    /\ call.range.end = 99
    /\ call.out.fields["Content-Length"] = <<"9", "9">>

\* the response of the pass just ended says Connection: keep-alive
AdvertisesKeepAlive(x) ==
    x.id # 0 /\ x.emission.wrote /\ x.emission.headers.Connection = "keep-alive"

Surplus == allData - (request.bodyFrom + request.Body.len)

\* C38: ParseRequest carries no bytes from one call to the next: what a call
\* took beyond the end of its request is part of the body it returned (no
\* Content-Length) or is in no request at all, and the next call begins with
\* nothing taken and sees only what the peer sent after the bytes the call
\* before it took
C38_NoBytesCarriedOver ==
    [][/\ (pc # "parsed" /\ pc' = "parsed") =>
             /\ Surplus' >= 0
             /\ ContentLength \notin DOMAIN request'.Headers => Surplus' = 0
       /\ (pc = "parsed" /\ pc' = "readHeaders") =>
             /\ allData' = 0
             /\ request' = NoRequest
             /\ wire'.sent = wire.sent - allData
             /\ wire'.arrived = wire.arrived - allData
             /\ \A q \in wire'.crlf \cup wire'.lflf : q >= 0]_vars

\* the peer sent two requests, the worker took both in the reads of its first
\* call, answered the first and waits for a request: the second is gone
C38_PipelinedRequestDropped ==
    /\ exchange.id = 1
    /\ requestCount = 1
    /\ pc = "readHeaders"
    /\ client.kind = "varied"
    /\ client.reqs = 0
    /\ wire.sent = 0
    /\ peer = "open"

\* a call of ServeFileStream with a Range header, of any form, for a file of at
\* most 1 048 576 bytes that exists and is not a directory
SmallFileRangeCall ==
    /\ call.fn = "ServeFileStream"
    /\ call.range.kind # "absent"
    /\ call.f.size <= 1048576
    /\ call.f.stat = "ok"
    /\ ~call.f.isDir

\* C39: a Range header is not looked at for a file of at most 1 048 576
\* bytes: the response is never a 206 or a 416, and when the file can be read
\* it is a 200 with Accept-Ranges: bytes, no Content-Range, and the whole file
C39_RangeIgnoredOnSmallFile ==
    SmallFileRangeCall =>
        /\ call.out.status \notin {206, 416}
        /\ call.f.readOK =>
              /\ call.out.status = 200
              /\ call.out.fields["Accept-Ranges"] = bytes
              /\ "Content-Range" \notin DOMAIN call.out.fields
              /\ call.out.body.src = "file"
              /\ call.out.body.from = 0
              /\ call.out.body.len = call.f.size
              /\ call.out.complete <=> call.w = "full"

\* bytes=1-99 of a file of exactly 1 048 576 bytes answered with the whole file
C39_RangeOfBoundaryFileIgnored ==
    /\ SmallFileRangeCall
    /\ call.f.size = MaxInMemorySize
    /\ call.range.kind = "closed" /\ call.range.start = 1 /\ call.range.end = 99
    /\ call.out.status = 200
    /\ call.out.complete
    /\ call.out.body.len = MaxInMemorySize

\* a Range value of no valid form for a file of 2048 bytes answered with the
\* whole file, not a 416
C39_InvalidRangeIgnored ==
    /\ SmallFileRangeCall
    /\ call.f.size = 2048
    /\ call.range.kind = "malformed"
    /\ call.out.status = 200
    /\ call.out.complete

\* a call of tcp.Listen or of TCPListener.Accept
SocketCreatingCall == call.fn \in {"Listen", "Accept"}

\* the steps after which the call holds a descriptor it has to close
FailsHoldingDescriptor ==
    \/ call.fn = "Listen"
         /\ call.failure \in {"reuseaddr", "keepalive", "nonblock", "parseip", "bind", "listen"}
    \/ call.fn = "Accept"
         /\ call.failure \in {"peertype", "getsockname", "localtype"}

\* C40: Listen and Accept leak no descriptor: a call that fails leaves open
\* exactly the descriptors that were open before it, having closed the one it
\* created if it created one; a call that succeeds leaves exactly one more
\* open, the one the returned Listener or Connection holds; neither closes a
\* descriptor that was open before
C40_NoDescriptorLeaked ==
    SocketCreatingCall =>
        /\ call.out.err <=> call.failure # "none"
        /\ call.out.err =>
              /\ call.out.fd = NoDescriptor
              /\ call.out.st.open = call.before
              /\ Len(call.out.st.closed) = (IF FailsHoldingDescriptor THEN 1 ELSE 0)
        /\ ~call.out.err =>
              /\ call.out.fd \notin call.before
              /\ call.out.st.open = call.before \cup {call.out.fd}
              /\ call.out.st.closed = <<>>
        /\ \A i \in 1..Len(call.out.st.closed) : call.out.st.closed[i] \notin call.before

\* bind fails with two descriptors open: the socket, descriptor 3, is closed
\* and the error returned
C40_BindFailureClosesSocket ==
    /\ call.fn = "Listen"
    /\ call.failure = "bind"
    /\ call.before = {1, 2}
    /\ call.out.err
    /\ call.out.st.closed = <<3>>
    /\ call.out.st.open = {1, 2}

\* the local-address lookup fails after accept gave a descriptor, which is
\* closed; the listener stays open
C40_LookupFailureClosesConnection ==
    /\ call.fn = "Accept"
    /\ call.failure = "getsockname"
    /\ call.listener = 1
    /\ call.before = {1}
    /\ call.out.err
    /\ call.out.st.closed = <<2>>
    /\ call.out.st.open = {1}

\* Accept succeeds: one more descriptor is open, the Connection's
C40_AcceptedConnectionOwnsDescriptor ==
    /\ call.fn = "Accept"
    /\ call.failure = "none"
    /\ call.before = {1, 3}
    /\ call.out.fd = 2
    /\ call.out.st.open = {1, 2, 3}

====
